---- MODULE Spec2Model ----
(***************************************************************************)
(* Normalization-based keyword detection engine                            *)
(* (src/detector/keyword_matcher.py, class KeywordMatcher).                *)
(*                                                                         *)
(* Strings are sequences of characters; a character is a short ASCII name: *)
(*   Hangul syllables  "to" "di" "bi" "ah" "ee" "ye" "si" "sin" "go"       *)
(*                     "pan" "mae" "geo" "rae"                             *)
(*   Latin letters     "D" "B" "I" (upper case), "d" "b" "i" (lower case)  *)
(*   separators        " " (white space), "-" and "." (punctuation)        *)
(*   the marker        "*" that _get_context inserts                       *)
(* Offsets are Python offsets: 0-based, spans half-open.                   *)
(***************************************************************************)
EXTENDS Integers, Sequences, FiniteSets, TLC

Max(a, b) == IF a >= b THEN a ELSE b
Min(a, b) == IF a <= b THEN a ELSE b

-----------------------------------------------------------------------------
(* Characters and Python string primitives                                 *)

\* case folding of one character: what re.IGNORECASE compares, and
\* str.lower() of every character but the dotted capital I
Lower(c) ==
  CASE c = "D" -> "d"
    [] c = "B" -> "b"
    [] c = "I" -> "i"
    [] c = "Idot" -> "i"
    [] OTHER -> c

\* str.lower() of one character: the dotted capital I (U+0130) becomes two
\* characters, i and the combining dot above
LowerChars(c) == IF c = "Idot" THEN <<"i", "dot">> ELSE <<Lower(c)>>

RECURSIVE Flatten(_)
Flatten(qq) == IF qq = <<>> THEN <<>> ELSE Head(qq) \o Flatten(Tail(qq))

\* the regular expression class \s
IsSpace(c) == c = " "

\* sep_re.match(ch): SEPARATOR_PATTERN is white space and common punctuation
IsSep(c) == c \in {" ", "-", "."}

\* str.isalnum() on one character
IsAlnum(c) == c \notin {" ", "-", ".", "*", "dot"}

\* s.lower()
LowerStr(s) == Flatten([n \in 1..Len(s) |-> LowerChars(s[n])])

\* the Python slice s[a:b]
Slice(s, a, b) ==
  LET lo == Max(0, a)
      hi == Min(Len(s), b)
  IN  IF lo >= hi THEN <<>> ELSE SubSeq(s, lo + 1, hi)

\* s[i:].startswith(w), case-sensitive
StartsAt(w, s, i) ==
  /\ i + Len(w) <= Len(s)
  /\ \A n \in 1..Len(w) : s[i + n] = w[n]

\* w in s
Contains(s, w) == \E i \in 0..(Len(s) - Len(w)) : StartsAt(w, s, i)

\* s.find(w, start): the least offset >= start where w occurs, or -1
Find(s, w, start) ==
  LET hits == {i \in start..(Len(s) - Len(w)) : StartsAt(w, s, i)}
  IN  IF hits = {} THEN -1 ELSE CHOOSE i \in hits : \A j \in hits : i <= j

RECURSIVE StrReplaceFrom(_, _, _, _)
StrReplaceFrom(s, old, new, i) ==
  IF old = <<>>
    THEN IF i >= Len(s) THEN new
         ELSE new \o <<s[i + 1]>> \o StrReplaceFrom(s, old, new, i + 1)
    ELSE IF i >= Len(s) THEN <<>>
         ELSE IF StartsAt(old, s, i)
                THEN new \o StrReplaceFrom(s, old, new, i + Len(old))
                ELSE <<s[i + 1]>> \o StrReplaceFrom(s, old, new, i + 1)

\* s.replace(old, new): every non-overlapping occurrence, left to right; an
\* empty old matches before every character and at the end
StrReplace(s, old, new) == StrReplaceFrom(s, old, new, 0)

-----------------------------------------------------------------------------
(* Regular expressions, as the module re evaluates them: a pattern is a    *)
(* sequence of atoms, matched left to right with backtracking, always      *)
(* ignoring case (the source passes re.IGNORECASE, or lower-cases the      *)
(* subject of a lower-case pattern)                                        *)

\* one literal character
Ch(c) == [t |-> "ch", c |-> c, alts |-> <<>>]
\* \s* (greedy)
Ws == [t |-> "ws", c |-> "", alts |-> <<>>]
\* (?:a1|a2|...) over literal strings, tried in order
Alt(alts) == [t |-> "alt", c |-> "", alts |-> alts]
\* a group that is opened and never closed
OpenParen == [t |-> "open", c |-> "", alts |-> <<>>]

\* re.compile(pat) raises re.error
ReError(pat) == \E n \in 1..Len(pat) : pat[n].t = "open"

\* the literal w occurs at offset i of s, ignoring case
LitAt(w, s, i) ==
  /\ i + Len(w) <= Len(s)
  /\ \A n \in 1..Len(w) : Lower(s[i + n]) = Lower(w[n])

RECURSIVE SpaceRun(_, _)
\* the number of white-space characters of s from offset i on
SpaceRun(s, i) ==
  IF i < Len(s) /\ IsSpace(s[i + 1]) THEN 1 + SpaceRun(s, i + 1) ELSE 0

RECURSIVE MatchAt(_, _, _, _)
RECURSIVE TryWs(_, _, _, _, _)
RECURSIVE TryAlt(_, _, _, _, _)
\* the end offset of the first (in backtracking order) match of atoms k.. of
\* pat at offset i of s, or -1
MatchAt(pat, k, s, i) ==
  IF k > Len(pat) THEN i
  ELSE CASE pat[k].t = "ch" ->
              IF i < Len(s) /\ Lower(s[i + 1]) = Lower(pat[k].c)
                THEN MatchAt(pat, k + 1, s, i + 1)
                ELSE -1
         [] pat[k].t = "ws" -> TryWs(pat, k, s, i, SpaceRun(s, i))
         [] OTHER -> TryAlt(pat, k, s, i, 1)

TryWs(pat, k, s, i, n) ==
  LET r == MatchAt(pat, k + 1, s, i + n)
  IN  IF r # -1 THEN r
      ELSE IF n = 0 THEN -1 ELSE TryWs(pat, k, s, i, n - 1)

TryAlt(pat, k, s, i, j) ==
  IF j > Len(pat[k].alts) THEN -1
  ELSE IF LitAt(pat[k].alts[j], s, i)
         THEN LET r == MatchAt(pat, k + 1, s, i + Len(pat[k].alts[j]))
              IN  IF r # -1 THEN r ELSE TryAlt(pat, k, s, i, j + 1)
         ELSE TryAlt(pat, k, s, i, j + 1)

RECURSIVE FindIterFrom(_, _, _)
\* re.finditer(pat, s) from offset i on: the spans <<start, end>> of the
\* non-overlapping matches, left to right
FindIterFrom(pat, s, i) ==
  IF i > Len(s) THEN <<>>
  ELSE LET e == MatchAt(pat, 1, s, i)
       IN  IF e = -1 THEN FindIterFrom(pat, s, i + 1)
           ELSE <<(<<i, e>>)>> \o FindIterFrom(pat, s, IF e = i THEN i + 1 ELSE e)

FindIter(pat, s) == FindIterFrom(pat, s, 0)

\* re.search(pat, s) is not None
ReSearch(pat, s) == FindIter(pat, s) # <<>>

RECURSIVE ReSubFrom(_, _, _, _)
ReSubFrom(pat, repl, s, i) ==
  IF i >= Len(s) THEN <<>>
  ELSE LET e == MatchAt(pat, 1, s, i)
       IN  IF e = -1 \/ e = i
             THEN <<s[i + 1]>> \o ReSubFrom(pat, repl, s, i + 1)
             ELSE repl \o ReSubFrom(pat, repl, s, e)

\* re.sub(pat, repl, s, flags=re.IGNORECASE) for a pattern that matches no
\* empty string
ReSub(pat, repl, s) == ReSubFrom(pat, repl, s, 0)

-----------------------------------------------------------------------------
(* Configuration tables imported from detector/constants.py                *)

\* the ordered alias rules: the Hangul spelling of a marker, white space
\* allowed inside it, is rewritten to the Latin abbreviation
\*   (r'di\s*bi', 'db'), (r'ahee\s*di', 'id')
ALIAS_MAPPINGS ==
  << [src |-> <<Ch("di"), Ws, Ch("bi")>>, dst |-> <<"d", "b">>],
     [src |-> <<Ch("ah"), Ch("ee"), Ws, Ch("di")>>, dst |-> <<"i", "d">>] >>

\* words that show an intent to trade
TRADE_INDICATORS == { <<"pan", "mae">> }

\* words that mark a benign context
NEGATIVE_INDICATORS == { <<"ye", "si">> }

Categories == {"personal_db", "loan_db"}

\* the order in which a dict built from the catalog sources lists its keys
CategoryOrder == <<"personal_db", "loan_db">>

\* per category, the words one of which the context must hold
REQUIRED_INDICATORS ==
  [c \in Categories |-> IF c = "loan_db" THEN { <<"geo", "rae">> } ELSE {}]

\* per category, the patterns of the pattern check
CATEGORY_PATTERNS ==
  [c \in Categories |->
     IF c = "loan_db"
       THEN << <<Ch("to"), Ch("to"), Ws, Ch("d"), Ch("b")>> >>
       ELSE <<>>]

\* a configuration whose loan_db pattern does not compile: r'toto('
BrokenPatterns ==
  [CATEGORY_PATTERNS EXCEPT !["loan_db"] = << <<Ch("to"), Ch("to"), OpenParen>> >>]

-----------------------------------------------------------------------------
(* Normalizer                                                              *)

RECURSIVE ApplyAliases(_, _)
\* for src, dst in self.aliases: t = re.sub(src, dst, t, flags=re.IGNORECASE)
ApplyAliases(t, k) ==
  IF k > Len(ALIAS_MAPPINGS) THEN t
  ELSE ApplyAliases(ReSub(ALIAS_MAPPINGS[k].src, ALIAS_MAPPINGS[k].dst, t), k + 1)

\* self.sep_re.sub('', t)
RemoveSeps(t) == SelectSeq(t, LAMBDA c : ~IsSep(c))

\* _normalize without the removal of the separators
_normalize_KeepSeparators(s) ==
  IF s = <<>> THEN <<>>
  ELSE LowerStr(ApplyAliases(s, 1))

_normalize(s) ==
  IF s = <<>> THEN <<>>
  ELSE RemoveSeps(LowerStr(ApplyAliases(s, 1)))

RECURSIVE NormWalk(_, _)
\* the walk of _build_norm_map over t from offset i: per kept character,
\* what norm_chars.append(ch.lower()) appends and the offset it has in t
NormWalk(t, i) ==
  IF i >= Len(t) THEN <<>>
  ELSE IF IsSep(t[i + 1]) THEN NormWalk(t, i + 1)
       ELSE <<[ch |-> LowerChars(t[i + 1]), idx |-> i]>> \o NormWalk(t, i + 1)

\* returns the normalized text and, per normalized character, its offset in
\* the alias-substituted string t
_build_norm_map(text) ==
  LET w == NormWalk(ApplyAliases(text, 1), 0)
  IN  [norm_text |-> Flatten([n \in 1..Len(w) |-> w[n].ch]),
       idx_map |-> [n \in 1..Len(w) |-> w[n].idx]]

RECURSIVE Dedup(_)
\* the distinct elements of a sequence, in order of first occurrence
Dedup(q) ==
  IF q = <<>> THEN <<>>
  ELSE LET r == Dedup(SubSeq(q, 1, Len(q) - 1))
       IN  IF \E n \in 1..Len(r) : r[n] = q[Len(q)] THEN r ELSE Append(r, q[Len(q)])

\* the set of the DB / ID spellings of s, listed in a fixed order (the source
\* builds a set; the scan does not depend on its order, see _compile_norms)
_expand_alias_variants(s) ==
  Dedup(<< s,
           ReSub(<<Ch("di"), Ws, Ch("bi")>>, <<"D", "B">>, s),
           ReSub(<<Ch("ah"), Ch("ee"), Ws, Ch("di")>>, <<"I", "D">>, s),
           ReSub(<<Ch("D"), Ws, Ch("B")>>, <<"di", "bi">>, s),
           ReSub(<<Ch("I"), Ws, Ch("D")>>, <<"ah", "ee", "di">>, s) >>)

-----------------------------------------------------------------------------
(* Catalog compilation                                                     *)

IsLatin(c) == c \in {"D", "B", "I", "d", "b", "i"}
IsHangul(c) == IsAlnum(c) /\ ~IsLatin(c)

\* membership of a character in a regular expression class
InClass(cls, c) ==
  CASE cls = "nonspace" -> ~IsSpace(c)
    [] cls = "hangul" -> IsHangul(c)
    [] OTHER -> IsLatin(c)

RECURSIVE Runs(_, _, _)
\* re.findall of a character class repeated (+): the maximal runs, from
\* offset i on, of the characters of s that are in the class
Runs(s, i, cls) ==
  IF i >= Len(s) THEN <<>>
  ELSE IF ~InClass(cls, s[i + 1]) THEN Runs(s, i + 1, cls)
       ELSE LET e == CHOOSE j \in (i + 1)..Len(s) :
                       /\ \A n \in (i + 1)..j : InClass(cls, s[n])
                       /\ (j = Len(s) \/ ~InClass(cls, s[j + 1]))
            IN  <<Slice(s, i, e)>> \o Runs(s, e, cls)

\* KEYWORD_SEPARATORS is white space: the parts between separators that
\* pass the test of the loop (two characters or more, not only digits and
\* punctuation)
SeparatorParts(keyword) ==
  SelectSeq(Runs(keyword, 0, "nonspace"),
            LAMBDA part : Len(part) >= 2 /\ \E n \in 1..Len(part) : IsAlnum(part[n]))

\* MEANINGFUL_PATTERNS are the runs of Hangul and the runs of Latin letters
MeaningfulParts(keyword) ==
  Runs(keyword, 0, "hangul") \o Runs(keyword, 0, "latin")

\* list(set([keyword] + partials)), listed in a fixed order
_extract_partial_keywords(keyword) ==
  Dedup(<<keyword>> \o SeparatorParts(keyword) \o MeaningfulParts(keyword))

\* the forms of one raw keyword without the test of norm_v for emptiness
CandidateNorms_KeepEmpty(raw_kw, search_mode) ==
  IF search_mode = "exact"
    THEN LET vs == _expand_alias_variants(raw_kw)
         IN  [n \in 1..Len(vs) |-> _normalize(vs[n])]
    ELSE LET ps == _extract_partial_keywords(raw_kw)
             vs == Flatten([n \in 1..Len(ps) |-> _expand_alias_variants(ps[n])])
         IN  SelectSeq([n \in 1..Len(vs) |-> _normalize(vs[n])],
                       LAMBDA norm_v : Len(norm_v) >= 2)

\* the normalized forms that one raw keyword offers to its bucket, in order
CandidateNorms(raw_kw, search_mode) ==
  IF search_mode = "exact"
    THEN LET vs == _expand_alias_variants(raw_kw)
         IN  SelectSeq([n \in 1..Len(vs) |-> _normalize(vs[n])],
                       LAMBDA norm_v : norm_v # <<>>)
    ELSE LET ps == _extract_partial_keywords(raw_kw)
             vs == Flatten([n \in 1..Len(ps) |-> _expand_alias_variants(ps[n])])
         IN  SelectSeq([n \in 1..Len(vs) |-> _normalize(vs[n])],
                       LAMBDA norm_v : norm_v # <<>> /\ Len(norm_v) >= 2)

RECURSIVE AddNorms_LastWins(_, _, _)
\* the loop without the set seen: a form that is already in the bucket is
\* tagged anew with the keyword at hand
AddNorms_LastWins(bucket, norms, raw_kw) ==
  IF norms = <<>> THEN bucket
  ELSE AddNorms_LastWins(
         IF \E n \in 1..Len(bucket) : bucket[n].norm = Head(norms)
           THEN [n \in 1..Len(bucket) |->
                   IF bucket[n].norm = Head(norms)
                     THEN [norm |-> Head(norms), raw |-> raw_kw] ELSE bucket[n]]
           ELSE Append(bucket, [norm |-> Head(norms), raw |-> raw_kw]),
         Tail(norms), raw_kw)

RECURSIVE AddNorms(_, _, _)
\* if norm_v not in seen: bucket.append({'norm': norm_v, 'raw': raw_kw})
AddNorms(bucket, norms, raw_kw) ==
  IF norms = <<>> THEN bucket
  ELSE AddNorms(IF \E n \in 1..Len(bucket) : bucket[n].norm = Head(norms)
                  THEN bucket
                  ELSE Append(bucket, [norm |-> Head(norms), raw |-> raw_kw]),
                Tail(norms), raw_kw)

RECURSIVE CompileBucket(_, _, _)
CompileBucket(bucket, klist, search_mode) ==
  IF klist = <<>> THEN bucket
  ELSE CompileBucket(AddNorms(bucket, CandidateNorms(Head(klist), search_mode), Head(klist)),
                     Tail(klist), search_mode)

\* compiled_norms after _compile_norms: per category of the catalog, its bucket
\* _compile_norms that compiles a built-in keyword when the catalog is empty
_compile_norms_Fallback(keywords, search_mode) ==
  LET catalog == IF DOMAIN keywords = {}
                   THEN [cat \in {"personal_db"} |-> << <<"D", "B">> >>]
                   ELSE keywords
  IN  [cat \in DOMAIN catalog |-> CompileBucket(<<>>, catalog[cat], search_mode)]

_compile_norms(keywords, search_mode) ==
  [cat \in DOMAIN keywords |-> CompileBucket(<<>>, keywords[cat], search_mode)]

-----------------------------------------------------------------------------
(* Context window and secondary filter                                     *)

\* the context sizes: of a reported hit, of the context validity check; and
\* the margin of the pattern check
DisplayContextSize == 50
FilterContextSize == 150
PatternMargin == 10

_get_context(text, start, end, context_size) ==
  LET ctx == Slice(text, Max(0, start - context_size), Min(Len(text), end + context_size))
      mid == Slice(text, start, end)
  IN  StrReplace(ctx, mid, <<"*", "*">> \o mid \o <<"*", "*">>)

_check_word_boundaries_regex(text, pattern) ==
  LET matches == FindIter(pattern, LowerStr(text))
  IN  \E n \in 1..Len(matches) :
        /\ matches[n][1] = 0 \/ ~IsAlnum(text[matches[n][1]])
        /\ matches[n][2] = Len(text) \/ ~IsAlnum(text[matches[n][2] + 1])

\* s.lower().replace(' ', '').replace('-', '').replace('_', '')
simple_normalize(s) == SelectSeq(LowerStr(s), LAMBDA c : c \notin {" ", "-", "_"})

RECURSIVE MatchPatternsFrom(_, _, _, _)
\* the loop over the patterns from the k-th on, then the fallback
MatchPatternsFrom(keyword, text, patterns, k) ==
  IF k > Len(patterns)
    THEN Contains(simple_normalize(text), simple_normalize(keyword))
    ELSE IF ReSearch(patterns[k], LowerStr(keyword)) /\ ReSearch(patterns[k], LowerStr(text))
           THEN _check_word_boundaries_regex(text, patterns[k])
           ELSE MatchPatternsFrom(keyword, text, patterns, k + 1)

_match_category_pattern(keyword, text, patterns) ==
  MatchPatternsFrom(keyword, text, patterns, 1)

_is_exact_keyword_pattern(original_keyword, text, start_pos, end_pos, category) ==
  LET extended_text == Slice(text, Max(0, start_pos - PatternMargin),
                             Min(Len(text), end_pos + PatternMargin))
      patterns == CATEGORY_PATTERNS[category]
  IN  IF patterns = <<>> THEN TRUE
      ELSE _match_category_pattern(original_keyword, extended_text, patterns)

\* db_keywords = ['db', 'dibi', 'd.b', 'd b']
db_keywords ==
  { <<"d", "b">>, <<"di", "bi">>, <<"d", ".", "b">>, <<"d", " ", "b">> }

\* _is_valid_illegal_context without the trade-intent words: outside the
\* special case only a required indicator of the category lets a hit pass
_is_valid_illegal_context_RequiredOnly(keyword, context, category) ==
  LET context_lower == LowerStr(context)
      has_negative == \E ind \in NEGATIVE_INDICATORS : Contains(context_lower, ind)
  IN  IF category = "personal_db" /\ \E db \in db_keywords : Contains(LowerStr(keyword), db)
        THEN ~has_negative
        ELSE /\ \E ind \in REQUIRED_INDICATORS[category] : Contains(context_lower, ind)
             /\ ~has_negative

\* _is_valid_illegal_context without the special case: a personal_db keyword
\* with a DB marker goes through the trade and required-indicator test too
_is_valid_illegal_context_NoSpecialCase(keyword, context, category) ==
  LET context_lower == LowerStr(context)
  IN  /\ \/ \E ind \in TRADE_INDICATORS : Contains(LowerStr(keyword), ind)
         \/ \E ind \in TRADE_INDICATORS : Contains(context_lower, ind)
         \/ \E ind \in REQUIRED_INDICATORS[category] : Contains(context_lower, ind)
      /\ ~\E ind \in NEGATIVE_INDICATORS : Contains(context_lower, ind)

_is_valid_illegal_context(keyword, context, category) ==
  LET context_lower == LowerStr(context)
      keyword_lower == LowerStr(keyword)
      has_negative == \E ind \in NEGATIVE_INDICATORS : Contains(context_lower, ind)
  IN  IF category = "personal_db" /\ \E db \in db_keywords : Contains(keyword_lower, db)
        THEN ~has_negative
        ELSE /\ \/ \E ind \in TRADE_INDICATORS : Contains(keyword_lower, ind)
                \/ \E ind \in TRADE_INDICATORS : Contains(context_lower, ind)
                \/ \E ind \in REQUIRED_INDICATORS[category] : Contains(context_lower, ind)
             /\ ~has_negative

_passes_secondary_filter(original_keyword, matched_text, full_text, start_pos, end_pos, category) ==
  /\ _is_exact_keyword_pattern(original_keyword, full_text, start_pos, end_pos, category)
  /\ _is_valid_illegal_context(original_keyword,
                               _get_context(full_text, start_pos, end_pos, FilterContextSize),
                               category)

\* the record of one hit
Hit(keyword, text, start, end) ==
  [keyword |-> keyword,
   matched_text |-> Slice(text, start, end),
   start_position |-> start,
   end_position |-> end,
   context |-> _get_context(text, start, end, DisplayContextSize)]

-----------------------------------------------------------------------------
(* Matcher: the default scan over the normalized text                      *)

RECURSIVE ScanNeedle_StopAtRejection(_, _, _, _, _, _)
\* the while loop with break for continue: a candidate that the secondary
\* filter rejects ends the scan for its compiled form
ScanNeedle_StopAtRejection(text, nm, item, cat, enable_secondary_filter, start) ==
  LET needle == item.norm
      pos == Find(nm.norm_text, needle, start)
      end_pos == pos + Len(needle)
      orig_start == nm.idx_map[pos + 1]
      orig_end == nm.idx_map[end_pos] + 1
  IN  IF pos = -1 THEN <<>>
      ELSE IF /\ enable_secondary_filter
              /\ ~_passes_secondary_filter(item.raw, Slice(text, orig_start, orig_end),
                                           text, orig_start, orig_end, cat)
             THEN <<>>
             ELSE <<Hit(item.raw, text, orig_start, orig_end)>>
                    \o ScanNeedle_StopAtRejection(text, nm, item, cat,
                                                  enable_secondary_filter, end_pos)

RECURSIVE ScanNeedle(_, _, _, _, _, _)
\* the while loop of detect_keywords_in_text for one compiled form, from
\* offset start of the normalized text on: the hits it appends
ScanNeedle(text, nm, item, cat, enable_secondary_filter, start) ==
  LET needle == item.norm
      pos == Find(nm.norm_text, needle, start)
      end_pos == pos + Len(needle)
      orig_start == nm.idx_map[pos + 1]
      orig_end == nm.idx_map[end_pos] + 1
      matched_text == Slice(text, orig_start, orig_end)
  IN  IF pos = -1 THEN <<>>
      ELSE IF /\ enable_secondary_filter
              /\ ~_passes_secondary_filter(item.raw, matched_text, text, orig_start, orig_end, cat)
             THEN ScanNeedle(text, nm, item, cat, enable_secondary_filter, end_pos)
             ELSE <<Hit(item.raw, text, orig_start, orig_end)>>
                    \o ScanNeedle(text, nm, item, cat, enable_secondary_filter, end_pos)

\* the false-positive filter of one category
FalsePositiveFilter(hits, phrases) ==
  LET fp_norms == {_normalize(phrases[n]) : n \in {m \in 1..Len(phrases) : phrases[m] # <<>>}}
  IN  SelectSeq(hits, LAMBDA h : ~\E fp \in fp_norms : Contains(_normalize(h.context), fp))

\* the body of the loop over the categories: the hits of one category
ScanCategory(text, nm, items, cat, enable_secondary_filter, fp) ==
  LET hits == Flatten([n \in 1..Len(items) |->
                         ScanNeedle(text, nm, items[n], cat, enable_secondary_filter, 0)])
  IN  IF hits # <<>> /\ cat \in DOMAIN fp /\ fp[cat] # <<>>
        THEN FalsePositiveFilter(hits, fp[cat])
        ELSE hits

-----------------------------------------------------------------------------
(* Matcher: the combination scan over the caller's text                    *)

DB_ALTERNATION == Alt(<< <<"D", "B">>, <<"di", "bi">>, <<"D", ".", "B">> >>)
ID_ALTERNATION == Alt(<< <<"I", "D">>, <<"ah", "ee", "di">>, <<"I", ".", "D">> >>)

RECURSIVE JoinWs(_)
\* r'\s*'.join(chars)
JoinWs(chars) ==
  IF Len(chars) <= 1 THEN chars
  ELSE <<Head(chars), Ws>> \o JoinWs(Tail(chars))

_create_flexible_pattern(keyword) ==
  LET p0 == JoinWs([n \in 1..Len(keyword) |-> Ch(keyword[n])])
      p1 == StrReplace(p0, <<Ch("D"), Ws, Ch("B")>>, <<DB_ALTERNATION>>)
      p2 == StrReplace(p1, <<Ch("di"), Ws, Ch("bi")>>, <<DB_ALTERNATION>>)
      p3 == StrReplace(p2, <<Ch("I"), Ws, Ch("D")>>, <<ID_ALTERNATION>>)
  IN  StrReplace(p3, <<Ch("ah"), Ws, Ch("ee"), Ws, Ch("di")>>, <<ID_ALTERNATION>>)

_check_full_keyword_presence(keyword, text) ==
  LET text_norm == _normalize(text)
      variants == _expand_alias_variants(keyword)
  IN  \E n \in 1..Len(variants) : Contains(text_norm, _normalize(variants[n]))

\* _find_keyword_positions over the partial forms of the keyword as well as
\* the keyword itself
_find_keyword_positions_Fragments(keyword, text) ==
  LET variants == _extract_partial_keywords(keyword)
  IN  Flatten([n \in 1..Len(variants) |-> FindIter(_create_flexible_pattern(variants[n]), text)])

\* the spans <<start_pos, end_pos>> of the keyword in the text, variant by
\* variant (matched_text is text[start_pos:end_pos])
_find_keyword_positions(keyword, text) ==
  LET variants == _expand_alias_variants(keyword)
  IN  Flatten([n \in 1..Len(variants) |-> FindIter(_create_flexible_pattern(variants[n]), text)])

\* the hits of one keyword in the combination scan
CombinationKeywordHits(text, original_keyword, cat, enable_secondary_filter) ==
  IF ~_check_full_keyword_presence(original_keyword, text) THEN <<>>
  ELSE LET positions == _find_keyword_positions(original_keyword, text)
           kept == SelectSeq(positions, LAMBDA p :
                     ~enable_secondary_filter
                     \/ _passes_secondary_filter(original_keyword, Slice(text, p[1], p[2]),
                                                 text, p[1], p[2], cat))
       IN  [n \in 1..Len(kept) |-> Hit(original_keyword, text, kept[n][1], kept[n][2])]

\* the body of the loop of _detect_with_combination_filter over the
\* categories: the hits of one category
CombinationCategory(text, klist, cat, enable_secondary_filter) ==
  Flatten([n \in 1..Len(klist) |->
             CombinationKeywordHits(text, klist[n], cat, enable_secondary_filter)])

-----------------------------------------------------------------------------
(* Deduplicator                                                            *)

\* _is_overlapping_or_contained with < for <=: spans that only touch overlap
_is_overlapping_or_contained_Touching(hit1, hit2) ==
  ~(hit1.end_position < hit2.start_position \/ hit2.end_position < hit1.start_position)

_is_overlapping_or_contained(hit1, hit2) ==
  ~(hit1.end_position <= hit2.start_position \/ hit2.end_position <= hit1.start_position)

\* the sort key (start_position, end_position)
KeyLeq(h1, h2) ==
  \/ h1.start_position < h2.start_position
  \/ h1.start_position = h2.start_position /\ h1.end_position <= h2.end_position

RECURSIVE InsertSorted(_, _)
\* h goes after every element whose key is not greater (sorted is stable)
InsertSorted(sorted, h) ==
  IF sorted = <<>> THEN <<h>>
  ELSE IF KeyLeq(sorted[Len(sorted)], h) THEN Append(sorted, h)
       ELSE Append(InsertSorted(SubSeq(sorted, 1, Len(sorted) - 1), h), sorted[Len(sorted)])

\* _remove_duplicates without the sort: the hits in the order of the scan
SortHits_ScanOrder(hits) == hits

RECURSIVE SortHits(_)
\* sorted(hits, key=lambda x: (x['start_position'], x['end_position']))
SortHits(hits) ==
  IF hits = <<>> THEN <<>>
  ELSE InsertSorted(SortHits(SubSeq(hits, 1, Len(hits) - 1)), hits[Len(hits)])

\* list.remove(x): drops the first element equal to x
RemoveFirst(list, x) ==
  LET n == CHOOSE m \in 1..Len(list) :
             list[m] = x /\ \A j \in 1..(m - 1) : list[j] # x
  IN  SubSeq(list, 1, n - 1) \o SubSeq(list, n + 1, Len(list))

RECURSIVE CompareExisting_KeepShorter(_, _, _, _)
\* the inner loop with < for > between the keyword lengths: of two hits
\* that overlap, the one with the shorter keyword stays
CompareExisting_KeepShorter(current_hit, copy, k, unique_hits) ==
  IF k > Len(copy) THEN [unique_hits |-> unique_hits, should_add |-> TRUE]
  ELSE LET existing_hit == copy[k]
       IN  IF \/ /\ current_hit.start_position = existing_hit.start_position
                 /\ current_hit.end_position = existing_hit.end_position
              \/ _is_overlapping_or_contained(current_hit, existing_hit)
             THEN IF Len(current_hit.keyword) < Len(existing_hit.keyword)
                    THEN CompareExisting_KeepShorter(current_hit, copy, k + 1,
                                                     RemoveFirst(unique_hits, existing_hit))
                    ELSE [unique_hits |-> unique_hits, should_add |-> FALSE]
             ELSE CompareExisting_KeepShorter(current_hit, copy, k + 1, unique_hits)

RECURSIVE CompareExisting(_, _, _, _)
\* the inner loop over the copy unique_hits[:], from its k-th element on:
\* the list unique_hits after the loop and the flag should_add
CompareExisting(current_hit, copy, k, unique_hits) ==
  IF k > Len(copy) THEN [unique_hits |-> unique_hits, should_add |-> TRUE]
  ELSE LET existing_hit == copy[k]
       IN  IF \/ /\ current_hit.start_position = existing_hit.start_position
                 /\ current_hit.end_position = existing_hit.end_position
              \/ _is_overlapping_or_contained(current_hit, existing_hit)
             THEN IF Len(current_hit.keyword) > Len(existing_hit.keyword)
                    THEN CompareExisting(current_hit, copy, k + 1,
                                         RemoveFirst(unique_hits, existing_hit))
                    ELSE [unique_hits |-> unique_hits, should_add |-> FALSE]
             ELSE CompareExisting(current_hit, copy, k + 1, unique_hits)

RECURSIVE DedupLoop(_, _)
\* the outer loop over hits_sorted
DedupLoop(hits_sorted, unique_hits) ==
  IF hits_sorted = <<>> THEN unique_hits
  ELSE LET r == CompareExisting(Head(hits_sorted), unique_hits, 1, unique_hits)
       IN  DedupLoop(Tail(hits_sorted),
                     IF r.should_add THEN Append(r.unique_hits, Head(hits_sorted))
                     ELSE r.unique_hits)

\* the hits of one category after deduplication
DedupCategory(hits) == DedupLoop(SortHits(hits), <<>>)

\* a dict is a function from its keys; Restrict drops the keys outside keep
Restrict(f, keep) == [k \in (DOMAIN f) \cap keep |-> f[k]]

\* _remove_duplicates with the return statement inside the loop over the
\* categories: it returns after the first category
_remove_duplicates_ReturnInLoop(detected) ==
  LET first == {category \in DOMAIN detected :
                  \A other \in DOMAIN detected :
                    \E i, j \in 1..Len(CategoryOrder) :
                      /\ CategoryOrder[i] = category
                      /\ CategoryOrder[j] = other
                      /\ i <= j}
  IN  [category \in first |-> DedupCategory(detected[category])]

_remove_duplicates(detected) ==
  LET cleaned == [category \in DOMAIN detected |->
                    IF detected[category] = <<>> THEN <<>>
                    ELSE DedupCategory(detected[category])]
  IN  Restrict(cleaned, {category \in DOMAIN cleaned : cleaned[category] # <<>>})

-----------------------------------------------------------------------------
(* Catalog load (the constructor)                                          *)

EmptyDict == [k \in {} |-> <<>>]

\* d[k] = v
DictSet(d, k, v) == [x \in (DOMAIN d) \cup {k} |-> IF x = k THEN v ELSE d[x]]

\* the keys of a dict over the categories, in iteration order
Keys(d) == SelectSeq(CategoryOrder, LAMBDA c : c \in DOMAIN d)

RECURSIVE _load_illegal_from_db(_, _)
\* rows of the keyword provider, each a <<category, keyword>>:
\* self.illegal_keywords.setdefault(cat, []).append(kw)
_load_illegal_from_db(keywords, rows) ==
  IF rows = <<>> THEN keywords
  ELSE LET cat == Head(rows)[1]
           kw == Head(rows)[2]
           klist == IF cat \in DOMAIN keywords THEN keywords[cat] ELSE <<>>
       IN  _load_illegal_from_db(DictSet(keywords, cat, Append(klist, kw)), Tail(rows))

RECURSIVE MergeList_AppendAll(_, _)
\* the merge without the test 'kw not in': every keyword of the document
\* is appended
MergeList_AppendAll(klist, kw_list) ==
  IF kw_list = <<>> THEN klist
  ELSE MergeList_AppendAll(Append(klist, Head(kw_list)), Tail(kw_list))

RECURSIVE MergeList(_, _)
\* if kw not in self.illegal_keywords[cat]: append
MergeList(klist, kw_list) ==
  IF kw_list = <<>> THEN klist
  ELSE MergeList(IF \E n \in 1..Len(klist) : klist[n] = Head(kw_list)
                   THEN klist ELSE Append(klist, Head(kw_list)),
                 Tail(kw_list))

RECURSIVE MergeCats(_, _, _)
MergeCats(keywords, jk, cats) ==
  IF cats = <<>> THEN keywords
  ELSE LET cat == Head(cats)
       IN  MergeCats(IF jk[cat] = <<>> THEN keywords
                     ELSE DictSet(keywords, cat,
                                  MergeList(IF cat \in DOMAIN keywords THEN keywords[cat] ELSE <<>>,
                                            jk[cat])),
                     jk, Tail(cats))

\* the supplementary document that does not exist
NoDocument == [exists |-> FALSE, shape |-> "ok", illegal_keywords |-> EmptyDict,
               false_positive_keywords |-> EmptyDict]

\* what the read of the document raises: json.loads on a text that is not
\* JSON, jk.items() on a keyword section that is not a mapping
DocumentError(doc) ==
  IF ~doc.exists THEN "none"
  ELSE CASE doc.shape = "unparsable" -> "JSONDecodeError"
         [] doc.shape = "keywords_not_a_mapping" -> "AttributeError"
         [] OTHER -> "none"

_maybe_merge_illegal_from_json(keywords, doc) ==
  IF doc.exists THEN MergeCats(keywords, doc.illegal_keywords, Keys(doc.illegal_keywords))
  ELSE keywords

_maybe_load_false_positive_from_json(doc) ==
  IF doc.exists THEN doc.false_positive_keywords ELSE EmptyDict

\* the fields of the engine after __init__, and the exception that __init__
\* raised ("none" when it returned): the statements after the one that
\* raises do not run
KeywordMatcher(rows, doc, search_mode) ==
  LET from_db == _load_illegal_from_db(EmptyDict, rows)
      error == DocumentError(doc)
      keywords == IF error = "none" THEN _maybe_merge_illegal_from_json(from_db, doc)
                  ELSE from_db
  IN  [illegal_keywords |-> keywords,
       compiled_norms |-> IF error = "none" THEN _compile_norms(keywords, search_mode)
                          ELSE EmptyDict,
       false_positive |-> IF error = "none" THEN _maybe_load_false_positive_from_json(doc)
                          ELSE EmptyDict,
       search_mode |-> search_mode,
       error |-> error]

-----------------------------------------------------------------------------
(* A detection call as one computation                                     *)

RECURSIVE CollectCats(_, _, _)
\* for cat in cats: hits = HitsOf[cat]; if hits: detected[cat] = hits
CollectCats(detected, cats, HitsOf) ==
  IF cats = <<>> THEN detected
  ELSE CollectCats(IF HitsOf[Head(cats)] # <<>>
                     THEN DictSet(detected, Head(cats), HitsOf[Head(cats)])
                     ELSE detected,
                   Tail(cats), HitsOf)

_detect_with_combination_filter(self, text, enable_secondary_filter) ==
  CollectCats(EmptyDict, Keys(self.illegal_keywords),
              [cat \in DOMAIN self.illegal_keywords |->
                 CombinationCategory(text, self.illegal_keywords[cat], cat,
                                     enable_secondary_filter)])

\* the loop of the default scan, before deduplication
DefaultScan(self, text, enable_secondary_filter) ==
  LET nm == _build_norm_map(text)
  IN  CollectCats(EmptyDict, Keys(self.compiled_norms),
                  [cat \in DOMAIN self.compiled_norms |->
                     ScanCategory(text, nm, self.compiled_norms[cat], cat,
                                  enable_secondary_filter, self.false_positive)])

RECURSIVE PatternsRaise(_, _, _, _)
\* the loop of _match_category_pattern from the k-th pattern on comes to a
\* pattern that re.search cannot compile before it returns
PatternsRaise(keyword, text, patterns, k) ==
  IF k > Len(patterns) THEN FALSE
  ELSE IF ReError(patterns[k]) THEN TRUE
  ELSE IF ReSearch(patterns[k], LowerStr(keyword)) /\ ReSearch(patterns[k], LowerStr(text))
         THEN FALSE
         ELSE PatternsRaise(keyword, text, patterns, k + 1)

\* _passes_secondary_filter raises re.error, the category patterns being
\* those of table: its first step, _is_exact_keyword_pattern, hands them to
\* _match_category_pattern
FilterRaises(table, original_keyword, text, start_pos, end_pos, category) ==
  PatternsRaise(original_keyword,
                Slice(text, Max(0, start_pos - PatternMargin),
                      Min(Len(text), end_pos + PatternMargin)),
                table[category], 1)

\* the first exception of a sequence of outcomes, "none" when there is none
FirstError(errs) ==
  LET bad == SelectSeq(errs, LAMBDA e : e # "none")
  IN  IF bad = <<>> THEN "none" ELSE bad[1]

RECURSIVE NeedleError(_, _, _, _, _, _, _)
\* the exception that ends the while loop of the default scan for one
\* compiled form, from offset start of the normalized text on
NeedleError(table, text, nm, item, cat, enable_secondary_filter, start) ==
  LET pos == Find(nm.norm_text, item.norm, start)
      end_pos == pos + Len(item.norm)
  IN  IF pos = -1 THEN "none"
      ELSE IF end_pos > Len(nm.idx_map) THEN "IndexError"
      ELSE IF /\ enable_secondary_filter
              /\ FilterRaises(table, item.raw, text, nm.idx_map[pos + 1],
                              nm.idx_map[end_pos] + 1, cat)
             THEN "re.error"
             ELSE NeedleError(table, text, nm, item, cat, enable_secondary_filter, end_pos)

\* the exception that ends the pass of the default scan over one category
CategoryError(table, text, nm, items, cat, enable_secondary_filter) ==
  FirstError([n \in 1..Len(items) |->
                NeedleError(table, text, nm, items[n], cat, enable_secondary_filter, 0)])

\* the exception that ends the pass of the combination scan over one category
CombinationCategoryError(table, text, klist, cat, enable_secondary_filter) ==
  FirstError([n \in 1..Len(klist) |->
    IF ~enable_secondary_filter \/ ~_check_full_keyword_presence(klist[n], text)
      THEN "none"
      ELSE LET positions == _find_keyword_positions(klist[n], text)
           IN  FirstError([m \in 1..Len(positions) |->
                 IF FilterRaises(table, klist[n], text, positions[m][1], positions[m][2], cat)
                   THEN "re.error" ELSE "none"])])

\* the exception that a detection call raises, "none" when it returns, the
\* category patterns being those of table
RaisedWith(table, self, text, enable_secondary_filter, require_full_combination) ==
  IF text = <<>> THEN "none"
  ELSE IF require_full_combination
    THEN LET cats == Keys(self.illegal_keywords)
         IN  FirstError([n \in 1..Len(cats) |->
               CombinationCategoryError(table, text, self.illegal_keywords[cats[n]],
                                        cats[n], enable_secondary_filter)])
    ELSE LET cats == Keys(self.compiled_norms)
             nm == _build_norm_map(text)
         IN  FirstError([n \in 1..Len(cats) |->
               CategoryError(table, text, nm, self.compiled_norms[cats[n]],
                             cats[n], enable_secondary_filter)])

\* what a detection call returns, when it returns
detect_keywords_in_text(self, text, enable_secondary_filter, require_full_combination) ==
  IF text = <<>> THEN EmptyDict
  ELSE IF require_full_combination
         THEN _remove_duplicates(_detect_with_combination_filter(self, text, enable_secondary_filter))
         ELSE _remove_duplicates(DefaultScan(self, text, enable_secondary_filter))

-----------------------------------------------------------------------------
(* Inputs of the model                                                     *)

\* the longest text, in characters: of the scan runs, of the filter runs
MaxTextLen == 6
MaxFilterTextLen == 7
\* the longest text of the concurrent runs, in words
MaxConcWords == 1

toto == <<"to", "to">>
totoDB == <<"to", "to", "D", "B">>

RECURSIVE TextsFrom(_, _, _, _)
\* the concatenations of words that are at most maxlen characters long
\* (n rounds of appending one word)
TextsFrom(texts, words, maxlen, n) ==
  IF n = 0 THEN texts
  ELSE TextsFrom(texts \cup {t \o w : t \in {u \in texts : Len(u) < maxlen},
                                      w \in {v \in words : Len(v) <= maxlen}},
                 words, maxlen, n - 1)

TextsOver(words, maxlen) ==
  {t \in TextsFrom({ <<>> }, words, maxlen, maxlen) : Len(t) <= maxlen}

\* the longest list of candidate hits of one category, and the length of the
\* text they lie in
MaxHits == 3
MaxSpanEnd == 4

\* an engine to construct: the rows <<category, keyword>> of the keyword
\* provider, the supplementary document, the search mode
Engine(rows, doc, search_mode) == [rows |-> rows, doc |-> doc, search_mode |-> search_mode]

\* scan runs: a name, the DB marker in its three spellings, white space, the
\* ID marker in Hangul
Words ==
  { toto, <<"D", "B">>, <<"di", "bi">>, <<"D", " ", "B">>, <<" ">>, <<"ah", "ee", "di">> }

Texts == TextsOver(Words, MaxTextLen)

Providers ==
  { << <<"personal_db", totoDB>>, <<"loan_db", <<"D", "B">> >> >>,
    << <<"loan_db", <<"to", "to", "D">> >>, <<"loan_db", <<"to", "D", "B">> >>,
       <<"loan_db", <<"B">> >> >>,
    << <<"personal_db", <<>> >>, <<"personal_db", <<" ">> >>,
       <<"loan_db", <<"to", "to", " ", "di", "bi">> >>, <<"loan_db", <<"I", "D">> >> >> }

Engines ==
  {Engine(rows, NoDocument, mode) : rows \in Providers, mode \in {"exact", "partial"}}

\* filter runs: the indicator words and a false-positive phrase around the
\* DB marker
FilterWords ==
  { toto, <<"D", "B">>, <<"ah", "ee", "di">>, <<"ye", "si">>, <<"sin", "go">>, <<"geo", "rae">> }

FilterTexts == TextsOver(FilterWords, MaxFilterTextLen)

FilterRows == << <<"personal_db", <<"D", "B">> >>, <<"loan_db", totoDB>> >>

FilterDocument ==
  [exists |-> TRUE, shape |-> "ok",
   illegal_keywords |-> DictSet(EmptyDict, "personal_db", << <<"D", "B">>, totoDB >>),
   false_positive_keywords |-> DictSet(EmptyDict, "personal_db", << <<"sin", " ", "go">> >>)]

\* a document whose keyword section lists no keyword
NoKeywordDocument ==
  [exists |-> TRUE, shape |-> "ok",
   illegal_keywords |-> DictSet(EmptyDict, "personal_db", <<>>),
   false_positive_keywords |-> DictSet(EmptyDict, "personal_db", << <<"sin", " ", "go">> >>)]

\* malformed documents: a text that is not JSON; a keyword section that is a
\* list instead of a mapping
UnparsableDocument == [FilterDocument EXCEPT !.shape = "unparsable"]

KeywordListDocument == [FilterDocument EXCEPT !.shape = "keywords_not_a_mapping"]

FilterEngines ==
  { Engine(FilterRows, NoDocument, "exact"), Engine(FilterRows, FilterDocument, "exact"),
    Engine(<<>>, NoDocument, "exact"), Engine(<<>>, NoKeywordDocument, "partial"),
    Engine(FilterRows, UnparsableDocument, "exact"),
    Engine(FilterRows, KeywordListDocument, "exact") }

\* case-folding runs: texts with the dotted capital I, whose lower case is
\* two characters long, around the DB marker
MaxFoldTextLen == 5

FoldWords == { <<"Idot">>, <<"D", "B">>, <<" ">> }

FoldTexts == TextsOver(FoldWords, MaxFoldTextLen)

FoldEngines ==
  {Engine(<< <<"personal_db", <<"D", "B">> >> >>, NoDocument, mode) : mode \in {"exact", "partial"}}

\* context runs: keywords outside the special case of the context check (a
\* loan_db keyword, one with a trade-intent word in it, a personal_db keyword
\* without the DB marker) and one inside it, in texts with a trade-intent
\* word, a required indicator and a negative indicator
MaxContextTextLen == 7
ContextWords ==
  { totoDB, <<"pan", "mae">>, <<"geo", "rae">>, <<"ye", "si">>, <<" ">> }
ContextTexts == TextsOver(ContextWords, MaxContextTextLen)
ContextRows ==
  << <<"personal_db", toto>>, <<"personal_db", <<"D", "B">> >>,
     <<"loan_db", totoDB>>, <<"loan_db", <<"to", "to", "pan", "mae">> >> >>
ContextEngines == {Engine(ContextRows, NoDocument, mode) : mode \in {"exact", "partial"}}
\* catalog runs: provider rows with a repeated row, documents that repeat a
\* keyword of the provider, add a keyword, add a category, repeat a keyword
\* of their own
RepeatDocument ==
  [FilterDocument EXCEPT
     !.illegal_keywords = DictSet(EmptyDict, "personal_db", << totoDB, totoDB, <<"D", "B">> >>)]
CatalogEngines ==
  { Engine(rows, doc, mode) :
      rows \in { <<>>, << <<"loan_db", totoDB>> >>,
                 << <<"personal_db", <<"D", "B">> >>, <<"loan_db", totoDB>>,
                    <<"personal_db", <<"D", "B">> >> >> },
      doc \in { NoDocument, FilterDocument, RepeatDocument },
      mode \in {"exact", "partial"} }
\* scan runs over long texts: a gap wider than the margin of the pattern
\* check between two occurrences of a keyword, and a keyword that overlaps
\* itself
MaxScanTextLen == 20
Gap == [n \in 1..PatternMargin |-> " "]
ScanWords == { totoDB, <<"pan", "mae">>, Gap }
ScanTexts == TextsOver(ScanWords, MaxScanTextLen)
ScanEngines ==
  { Engine(<< <<"loan_db", totoDB>>, <<"loan_db", <<"pan", "mae", "pan">> >> >>,
           NoDocument, mode) : mode \in {"exact", "partial"} }
\* concurrent runs
ConcWords == { totoDB, <<"di", "bi">> }

RECURSIVE WordSeqs(_, _)
\* the concatenations of at most n words
WordSeqs(words, n) ==
  IF n = 0 THEN { <<>> }
  ELSE LET shorter == WordSeqs(words, n - 1)
       IN  shorter \cup {t \o w : t \in shorter, w \in words}

ConcTexts == WordSeqs(ConcWords, MaxConcWords)

ConcEngines ==
  { Engine(<< <<"personal_db", totoDB>>, <<"loan_db", <<"D", "B">> >> >>, NoDocument, "exact"),
    Engine(<< <<"personal_db", totoDB>> >>, FilterDocument, "partial") }

\* deduplication runs: the candidate hits of one category, keywords of one,
\* two and three characters at every span of the text that is at least as
\* long as the keyword (white space inside a match lengthens it); the
\* deduplication reads the keyword and the span of a hit and nothing else
DedupText == SubSeq(<<"to", "D", "B", "to", "D", "B">>, 1, MaxSpanEnd)

DedupKeywords == { <<"B">>, <<"D", "B">>, <<"to", "D", "B">> }

CandidateHits ==
  { Hit(x.keyword, DedupText, x.start, x.end) :
      x \in { y \in [keyword : DedupKeywords, start : 0..MaxSpanEnd, end : 0..MaxSpanEnd] :
                y.end - y.start >= Len(y.keyword) } }

\* the dicts handed to _remove_duplicates: empty, or one category with its
\* list of hits in the order of the scan
DetectedDicts ==
  { EmptyDict } \cup
  { DictSet(EmptyDict, "loan_db", hits) :
      hits \in UNION { [1..n -> CandidateHits] : n \in 1..MaxHits } }

-----------------------------------------------------------------------------
(* DatabaseManager: the table crawl_results and the content hash           *)

RECURSIVE LStrip(_)
LStrip(s) == IF s # <<>> /\ IsSpace(Head(s)) THEN LStrip(Tail(s)) ELSE s

RECURSIVE RStrip(_)
RStrip(s) == IF s # <<>> /\ IsSpace(s[Len(s)]) THEN RStrip(SubSeq(s, 1, Len(s) - 1)) ELSE s

\* s.strip()
Strip(s) == RStrip(LStrip(s))

RECURSIVE CollapseSpaces(_)
\* re.sub(r'\s+', ' ', s)
CollapseSpaces(s) ==
  IF s = <<>> THEN <<>>
  ELSE IF IsSpace(Head(s)) THEN <<" ">> \o CollapseSpaces(LStrip(s))
       ELSE <<Head(s)>> \o CollapseSpaces(Tail(s))

\* prefixes_to_remove
NoisePrefixes ==
  << <<"N", "o", "n", "e">>, <<"n", "u", "l", "l">>,
     <<"u", "n", "d", "e", "f", "i", "n", "e", "d">>, <<>> >>

RECURSIVE RemovePrefixes(_, _)
\* for prefix in prefixes_to_remove: if normalized.startswith(prefix): ...
RemovePrefixes(normalized, k) ==
  IF k > Len(NoisePrefixes) THEN normalized
  ELSE RemovePrefixes(IF StartsAt(NoisePrefixes[k], normalized, 0)
                        THEN Strip(Slice(normalized, Len(NoisePrefixes[k]), Len(normalized)))
                        ELSE normalized,
                      k + 1)

_normalize_content_for_duplicate_check(content) ==
  IF content = <<>> THEN <<>>
  ELSE Strip(CollapseSpaces(RemovePrefixes(Strip(content), 1)))

\* the MD5 digest of the normalized content: equal contents have equal
\* digests, and the digests of the contents at hand do not collide
_get_content_hash(content) == <<"md5">> \o _normalize_content_for_duplicate_check(content)

\* SELECT ... FROM crawl_results WHERE url = %s finds a row
UrlStored(rows, url) == \E n \in 1..Len(rows) : rows[n].url = url

\* SELECT ... FROM crawl_results WHERE content_hash = %s finds a row
HashStored(rows, content_hash) == \E n \in 1..Len(rows) : rows[n].content_hash = content_hash

\* what save_crawl_result returns: "duplicate_url", "duplicate_content", the
\* id of the new row, or None
Returns(kind, id) == [kind |-> kind, id |-> id]

\* a whole call of save_crawl_result on the table, with no other connection
\* at work: what it returns and the table it leaves
save_crawl_result(table, url, content) ==
  LET content_hash == _get_content_hash(content)
  IN  IF UrlStored(table.rows, url)
        THEN [result |-> Returns("duplicate_url", 0), table |-> table]
      ELSE IF HashStored(table.rows, content_hash)
        THEN [result |-> Returns("duplicate_content", 0), table |-> table]
      ELSE [result |-> Returns("id", table.serial + 1),
            table |-> [rows |-> Append(table.rows,
                                       [id |-> table.serial + 1, url |-> url,
                                        content_hash |-> content_hash]),
                       serial |-> table.serial + 1]]

\* the connections that run save_crawl_result, each in a transaction of its
\* own
Connections == {1, 2}

\* the posts of a board
NoPosts == <<>>

-----------------------------------------------------------------------------
(* State                                                                   *)

VARIABLES
  category_patterns,  \* the table CATEGORY_PATTERNS that the module imported
  constructed,   \* __init__ has run
  self,          \* the fields of the engine: illegal_keywords, compiled_norms,
                 \* false_positive, search_mode; and what __init__ raised
  call           \* per thread, the detection call it is in: its arguments, its
                 \* position, its local working state (with the compiled forms
                 \* left in the category at hand, the start of the search loop
                 \* and the hits of the category), its result, the result
                 \* of the call before it when that had the same arguments,
                 \* and what the call returns when it runs alone
  ,
  crawl_results, \* the table crawl_results: its committed rows and the last
                 \* value of the sequence behind its id column
  save,          \* per connection, the call of save_crawl_result it runs: its
                 \* arguments, its position, the rows it found committed when
                 \* it began, and what it returned
  board          \* the run of analyze_board: the posts left, the items gathered,
                 \* the posts reported as duplicates, the rows committed
                 \* before the run, and the dict returned

vars == <<category_patterns, constructed, self, call, crawl_results, save, board>>

Threads == {1, 2}

IdleCall ==
  [pc |-> "idle", text |-> <<>>, enable_secondary_filter |-> FALSE,
   require_full_combination |-> FALSE,
   nm |-> [norm_text |-> <<>>, idx_map |-> <<>>],
   cats |-> <<>>, items |-> <<>>, start |-> 0, hits |-> <<>>,
   detected |-> EmptyDict, result |-> EmptyDict,
   raised |-> "none", repeated |-> FALSE, previous |-> EmptyDict, alone |-> EmptyDict]

IdleSave ==
  [pc |-> "idle", url |-> "", content_hash |-> <<>>, id |-> 0,
   before |-> <<>>, result |-> Returns("None", 0)]

IdleBoard ==
  [pc |-> "idle", posts |-> NoPosts, listed |-> NoPosts, outputs |-> <<>>,
   skipped |-> <<>>, before |-> <<>>, returned |-> [count |-> 0, items |-> <<>>]]

\* init_database: the table exists, with no row yet
Database0 ==
  /\ crawl_results = [rows |-> <<>>, serial |-> 0]
  /\ save = [c \in Connections |-> IdleSave]
  /\ board = IdleBoard

Engine0 ==
  /\ constructed = FALSE
  /\ self = [illegal_keywords |-> EmptyDict, compiled_norms |-> EmptyDict,
             false_positive |-> EmptyDict, search_mode |-> "exact", error |-> "none"]
  /\ call = [t \in Threads |-> IdleCall]

Init ==
  /\ category_patterns = CATEGORY_PATTERNS
  /\ Engine0
  /\ Database0

\* the module imported either table
InitPattern ==
  /\ category_patterns \in {CATEGORY_PATTERNS, BrokenPatterns}
  /\ Engine0
  /\ Database0

\* KeywordMatcher.__init__
Construct(rows, doc, search_mode) ==
  /\ ~constructed
  /\ self' = KeywordMatcher(rows, doc, search_mode)
  /\ constructed' = (self'.error = "none")
  /\ UNCHANGED <<category_patterns, call, crawl_results, save, board>>

\* a detection call that begins like _compile_norms, with
\* self.compiled_norms.clear()
SelfAfterDetect_Cleared(engine) == [engine EXCEPT !.compiled_norms = EmptyDict]

\* a detection call that consumes what it reads: every statement pops the
\* first form of each bucket and the first keyword of each category
SelfAfterDetect_Consumed(engine) ==
  [engine EXCEPT
     !.compiled_norms = [cat \in DOMAIN @ |-> IF @[cat] = <<>> THEN <<>> ELSE Tail(@[cat])],
     !.illegal_keywords = [cat \in DOMAIN @ |-> IF @[cat] = <<>> THEN <<>> ELSE Tail(@[cat])]]

\* the fields of the engine after a statement of a detection call: the call
\* reads them and assigns none
SelfAfterDetect(engine) == engine

\* a whole detection call of thread t
WholeCall(t, text, enable_secondary_filter, require_full_combination, repeated, previous) ==
  /\ constructed
  /\ call' = [call EXCEPT ![t] =
       [IdleCall EXCEPT
          !.pc = "done",
          !.text = text,
          !.enable_secondary_filter = enable_secondary_filter,
          !.require_full_combination = require_full_combination,
          !.raised = RaisedWith(category_patterns, self, text, enable_secondary_filter,
                                  require_full_combination),
          !.result = IF RaisedWith(category_patterns, self, text, enable_secondary_filter,
                                  require_full_combination) # "none"
                       THEN EmptyDict
                       ELSE detect_keywords_in_text(self, text, enable_secondary_filter,
                                                    require_full_combination),
          !.repeated = repeated,
          !.previous = previous,
          !.alone = IF RaisedWith(category_patterns, self, text, enable_secondary_filter,
                                  require_full_combination) # "none"
                      THEN EmptyDict
                      ELSE detect_keywords_in_text(self, text, enable_secondary_filter,
                                                   require_full_combination)]]
  /\ self' = SelfAfterDetect(self)
  /\ UNCHANGED <<category_patterns, constructed, crawl_results, save, board>>

\* detect_keywords_in_text(text, enable_secondary_filter, require_full_combination)
Detect(t, text, enable_secondary_filter, require_full_combination) ==
  /\ call[t].pc = "idle"
  /\ WholeCall(t, text, enable_secondary_filter, require_full_combination, FALSE, EmptyDict)

\* the same call once more
DetectAgain(t) ==
  /\ call[t].pc = "done"
  /\ WholeCall(t, call[t].text, call[t].enable_secondary_filter,
               call[t].require_full_combination, TRUE, call[t].result)

\* the caller drops the result; the thread is free for another call
Release(t) ==
  /\ call[t].pc \in {"done", "deduplicated"}
  /\ call' = [call EXCEPT ![t] = IdleCall]
  /\ UNCHANGED <<category_patterns, constructed, self, crawl_results, save, board>>

\* one engine out of engines, and calls on it one after the other with texts
\* out of texts
Sequential(engines, texts) ==
  \/ \E e \in engines : Construct(e.rows, e.doc, e.search_mode)
  \/ \E text \in texts, esf \in BOOLEAN, rfc \in BOOLEAN : Detect(1, text, esf, rfc)
  \/ DetectAgain(1)
  \/ Release(1)

Next == Sequential(Engines, Texts)

Spec == Init /\ [][Next]_vars

NextFilter == Sequential(FilterEngines, FilterTexts)

SpecFilter == Init /\ [][NextFilter]_vars

NextFold == Sequential(FoldEngines, FoldTexts)

SpecFold == Init /\ [][NextFold]_vars

SpecPattern == InitPattern /\ [][NextFilter]_vars

NextCatalog == Sequential(CatalogEngines, ConcTexts)

SpecCatalog == Init /\ [][NextCatalog]_vars

NextScan == Sequential(ScanEngines, ScanTexts)

SpecScan == Init /\ [][NextScan]_vars

NextContext == Sequential(ContextEngines, ContextTexts)

SpecContext == Init /\ [][NextContext]_vars

-----------------------------------------------------------------------------
(* A detection call statement by statement, for calls that run concurrently *)

\* the entry of detect_keywords_in_text, up to the first loop
Enter(t, text, enable_secondary_filter, require_full_combination) ==
  /\ constructed
  /\ call[t].pc = "idle"
  /\ call' = [call EXCEPT ![t] =
       [IdleCall EXCEPT
          !.text = text,
          !.enable_secondary_filter = enable_secondary_filter,
          !.require_full_combination = require_full_combination,
          !.pc = IF text = <<>> THEN "done"
                 ELSE IF require_full_combination THEN "combination" ELSE "scan",
          !.nm = IF text = <<>> \/ require_full_combination THEN IdleCall.nm
                 ELSE _build_norm_map(text),
          !.cats = IF text = <<>> THEN <<>>
                   ELSE IF require_full_combination THEN Keys(self.illegal_keywords)
                   ELSE Keys(self.compiled_norms),
          !.alone = IF RaisedWith(category_patterns, self, text, enable_secondary_filter,
                                  require_full_combination) # "none"
                      THEN EmptyDict
                      ELSE detect_keywords_in_text(self, text, enable_secondary_filter,
                                                   require_full_combination)]]
  /\ self' = SelfAfterDetect(self)
  /\ UNCHANGED <<category_patterns, constructed, crawl_results, save, board>>

\* one pass of the loop of the default scan: the next category
ScanStep(t) ==
  /\ call[t].pc = "scan"
  /\ call[t].cats # <<>>
  /\ LET c == call[t]
         cat == Head(c.cats)
         hits == ScanCategory(c.text, c.nm, self.compiled_norms[cat], cat,
                              c.enable_secondary_filter, self.false_positive)
         err == CategoryError(category_patterns, c.text, c.nm, self.compiled_norms[cat],
                              cat, c.enable_secondary_filter)
     IN  IF err # "none"
           THEN call' = [call EXCEPT ![t].pc = "done", ![t].raised = err]
           ELSE call' = [call EXCEPT ![t].cats = Tail(c.cats),
                                     ![t].detected = IF hits # <<>>
                                                       THEN DictSet(c.detected, cat, hits)
                                                       ELSE c.detected]
  /\ self' = SelfAfterDetect(self)
  /\ UNCHANGED <<category_patterns, constructed, crawl_results, save, board>>

\* one pass of the loop of _detect_with_combination_filter: the next category
CombinationStep(t) ==
  /\ call[t].pc = "combination"
  /\ call[t].cats # <<>>
  /\ LET c == call[t]
         cat == Head(c.cats)
         hits == CombinationCategory(c.text, self.illegal_keywords[cat], cat,
                                     c.enable_secondary_filter)
         err == CombinationCategoryError(category_patterns, c.text,
                                         self.illegal_keywords[cat], cat,
                                         c.enable_secondary_filter)
     IN  IF err # "none"
           THEN call' = [call EXCEPT ![t].pc = "done", ![t].raised = err]
           ELSE call' = [call EXCEPT ![t].cats = Tail(c.cats),
                                     ![t].detected = IF hits # <<>>
                                                       THEN DictSet(c.detected, cat, hits)
                                                       ELSE c.detected]
  /\ self' = SelfAfterDetect(self)
  /\ UNCHANGED <<category_patterns, constructed, crawl_results, save, board>>

\* return self._remove_duplicates(detected)
Return(t) ==
  /\ call[t].pc \in {"scan", "combination"}
  /\ call[t].cats = <<>>
  /\ call' = [call EXCEPT ![t].pc = "done",
                          ![t].result = _remove_duplicates(call[t].detected)]
  /\ self' = SelfAfterDetect(self)
  /\ UNCHANGED <<category_patterns, constructed, crawl_results, save, board>>

\* two threads call one engine; their statements interleave
NextConc ==
  \/ \E e \in ConcEngines : Construct(e.rows, e.doc, e.search_mode)
  \/ \E t \in Threads, text \in ConcTexts, esf \in BOOLEAN, rfc \in BOOLEAN :
       Enter(t, text, esf, rfc)
  \/ \E t \in Threads : ScanStep(t)
  \/ \E t \in Threads : CombinationStep(t)
  \/ \E t \in Threads : Return(t)
  \/ \E t \in Threads : Release(t)

SpecConc == Init /\ [][NextConc]_vars

-----------------------------------------------------------------------------
(* The default scan iteration by iteration of its search loop              *)

\* loop runs: a catalog with an empty keyword, a keyword of separators only
\* and keywords that occur in the texts
MaxLoopWords == 2

LoopWords == { totoDB, <<" ">> }

LoopTexts == WordSeqs(LoopWords, MaxLoopWords)

LoopEngines ==
  { Engine(<< <<"loan_db", <<>> >>, <<"loan_db", <<" ", "-">> >>, <<"loan_db", totoDB>>,
              <<"personal_db", <<"D", "B">> >> >>, NoDocument, mode) :
      mode \in {"exact", "partial"} }

\* the list item l[i] of Python: a negative i counts from the end
Item(l, i) == IF i < 0 THEN l[Len(l) + i + 1] ELSE l[i + 1]

\* l[i] raises IndexError
OutOfRange(l, i) == i >= Len(l) \/ i < 0 - Len(l)

\* the entry of detect_keywords_in_text with require_full_combination=False,
\* up to the loop over the categories
EnterScan(t, text, enable_secondary_filter) ==
  /\ constructed
  /\ call[t].pc = "idle"
  /\ call' = [call EXCEPT ![t] =
       [IdleCall EXCEPT
          !.text = text,
          !.enable_secondary_filter = enable_secondary_filter,
          !.pc = IF text = <<>> THEN "done" ELSE "scan",
          !.nm = IF text = <<>> THEN IdleCall.nm ELSE _build_norm_map(text),
          !.cats = IF text = <<>> THEN <<>> ELSE Keys(self.compiled_norms)]]
  /\ self' = SelfAfterDetect(self)
  /\ UNCHANGED <<category_patterns, constructed, crawl_results, save, board>>

\* for cat, items in self.compiled_norms.items(): hits = []; and, for the
\* first item, start = 0
BeginCategory(t) ==
  /\ call[t].pc = "scan"
  /\ call[t].cats # <<>>
  /\ call' = [call EXCEPT ![t].pc = "needle",
                          ![t].items = self.compiled_norms[Head(call[t].cats)],
                          ![t].start = 0,
                          ![t].hits = <<>>]
  /\ self' = SelfAfterDetect(self)
  /\ UNCHANGED <<category_patterns, constructed, crawl_results, save, board>>

\* one iteration of while True for the compiled form at hand, on the local
\* state c of the call: what the iteration leaves; the break goes on to the
\* next form with start = 0
Iteration(table, c) ==
  LET cat == Head(c.cats)
      item == Head(c.items)
      needle == item.norm
      pos == Find(c.nm.norm_text, needle, c.start)
      end_pos == pos + Len(needle)
      orig_start == Item(c.nm.idx_map, pos)
      orig_end == Item(c.nm.idx_map, end_pos - 1) + 1
      matched_text == Slice(c.text, orig_start, orig_end)
  IN  IF pos = -1
        THEN [c EXCEPT !.items = Tail(c.items), !.start = 0]
      ELSE IF OutOfRange(c.nm.idx_map, pos) \/ OutOfRange(c.nm.idx_map, end_pos - 1)
        THEN [c EXCEPT !.pc = "done", !.raised = "IndexError"]
      ELSE IF /\ c.enable_secondary_filter
              /\ FilterRaises(table, item.raw, c.text, orig_start, orig_end, cat)
        THEN [c EXCEPT !.pc = "done", !.raised = "re.error"]
      ELSE IF /\ c.enable_secondary_filter
              /\ ~_passes_secondary_filter(item.raw, matched_text, c.text,
                                           orig_start, orig_end, cat)
        THEN [c EXCEPT !.start = end_pos]
      ELSE [c EXCEPT !.hits = Append(c.hits, Hit(item.raw, c.text, orig_start, orig_end)),
                     !.start = end_pos]

Iterate(t) ==
  /\ call[t].pc = "needle"
  /\ call[t].items # <<>>
  /\ call' = [call EXCEPT ![t] = Iteration(category_patterns, call[t])]
  /\ self' = SelfAfterDetect(self)
  /\ UNCHANGED <<category_patterns, constructed, crawl_results, save, board>>

\* the end of the body of the loop over the categories: the false-positive
\* filter and, if hits: detected[cat] = hits
EndCategory(t) ==
  /\ call[t].pc = "needle"
  /\ call[t].items = <<>>
  /\ LET c == call[t]
         cat == Head(c.cats)
         fp == self.false_positive
         hits == IF c.hits # <<>> /\ cat \in DOMAIN fp /\ fp[cat] # <<>>
                   THEN FalsePositiveFilter(c.hits, fp[cat])
                   ELSE c.hits
     IN  call' = [call EXCEPT ![t].pc = "scan",
                              ![t].cats = Tail(c.cats),
                              ![t].hits = <<>>,
                              ![t].detected = IF hits # <<>>
                                                THEN DictSet(c.detected, cat, hits)
                                                ELSE c.detected]
  /\ self' = SelfAfterDetect(self)
  /\ UNCHANGED <<category_patterns, constructed, crawl_results, save, board>>

NextLoop ==
  \/ \E e \in LoopEngines : Construct(e.rows, e.doc, e.search_mode)
  \/ \E text \in LoopTexts, esf \in BOOLEAN : EnterScan(1, text, esf)
  \/ BeginCategory(1)
  \/ Iterate(1)
  \/ EndCategory(1)
  \/ Return(1)
  \/ Release(1)

\* the statements of a running call of thread t
LoopStep(t) == BeginCategory(t) \/ Iterate(t) \/ EndCategory(t) \/ Return(t)

\* thread t is in a call: one of its statements is enabled
Running(t) == call[t].pc \in {"scan", "needle"}

\* weak fairness of the statements of thread t, which is WF_vars(LoopStep(t))
\* with Running(t) written for ENABLED <<LoopStep(t)>>_vars: every statement
\* leaves a state other than the one it began in
Scheduled(t) == []<>(~Running(t)) \/ []<><<LoopStep(t)>>_vars

\* a thread that runs a call is scheduled again and again
SpecLoop == Init /\ [][NextLoop]_vars /\ Scheduled(1)

-----------------------------------------------------------------------------
(* save_crawl_result statement by statement, for calls on connections of    *)
(* their own: a statement reads the rows that are committed (READ          *)
(* COMMITTED, the isolation level of a connection that sets none)          *)

\* save runs: two urls, and contents of which two differ in white space only
MaxSerial == 3

Urls == {"u1", "u2"}

SaveContents == { totoDB, <<" ">> \o totoDB, toto }

\* the entry of save_crawl_result: the content hash and the connection
BeginSave(c, url, content) ==
  /\ save[c].pc = "idle"
  /\ crawl_results.serial < MaxSerial
  /\ save' = [save EXCEPT ![c] =
       [IdleSave EXCEPT !.pc = "select_url", !.url = url,
                        !.content_hash = _get_content_hash(content),
                        !.before = crawl_results.rows]]
  /\ UNCHANGED <<category_patterns, constructed, self, call, crawl_results, board>>

\* 1. SELECT id, title FROM crawl_results WHERE url = %s
SelectUrl(c) ==
  /\ save[c].pc = "select_url"
  /\ save' = IF UrlStored(crawl_results.rows, save[c].url)
               THEN [save EXCEPT ![c].pc = "done", ![c].result = Returns("duplicate_url", 0)]
               ELSE [save EXCEPT ![c].pc = "select_content"]
  /\ UNCHANGED <<category_patterns, constructed, self, call, crawl_results, board>>

\* 2. SELECT id, url, title FROM crawl_results WHERE content_hash = %s
SelectContent(c) ==
  /\ save[c].pc = "select_content"
  /\ save' = IF HashStored(crawl_results.rows, save[c].content_hash)
               THEN [save EXCEPT ![c].pc = "done",
                                 ![c].result = Returns("duplicate_content", 0)]
               ELSE [save EXCEPT ![c].pc = "insert"]
  /\ UNCHANGED <<category_patterns, constructed, self, call, crawl_results, board>>

\* 3. INSERT INTO crawl_results ... RETURNING id, created_at: the statement
\* waits while another transaction holds an uncommitted row with its url;
\* the constraint UNIQUE of the column url fails it when a committed row has
\* its url, and the handler of psycopg2.Error returns None
InsertRow(c) ==
  /\ save[c].pc = "insert"
  /\ ~\E d \in Connections \ {c} : save[d].pc = "commit" /\ save[d].url = save[c].url
  /\ save' = IF UrlStored(crawl_results.rows, save[c].url)
               THEN [save EXCEPT ![c].pc = "done", ![c].result = Returns("None", 0)]
               ELSE [save EXCEPT ![c].pc = "commit", ![c].id = crawl_results.serial + 1]
  /\ crawl_results' = [crawl_results EXCEPT !.serial = @ + 1]
  /\ UNCHANGED <<category_patterns, constructed, self, call, board>>

\* conn.commit(), and the return of the id of the row
Commit(c) ==
  /\ save[c].pc = "commit"
  /\ crawl_results' = [crawl_results EXCEPT
       !.rows = Append(@, [id |-> save[c].id, url |-> save[c].url,
                           content_hash |-> save[c].content_hash])]
  /\ save' = [save EXCEPT ![c].pc = "done", ![c].result = Returns("id", save[c].id)]
  /\ UNCHANGED <<category_patterns, constructed, self, call, board>>

\* the caller has the result; the connection is closed
ReleaseSave(c) ==
  /\ save[c].pc = "done"
  /\ save' = [save EXCEPT ![c] = IdleSave]
  /\ UNCHANGED <<category_patterns, constructed, self, call, crawl_results, board>>

\* calls of save_crawl_result on two connections; their statements interleave
NextSave ==
  \/ \E c \in Connections, url \in Urls, content \in SaveContents : BeginSave(c, url, content)
  \/ \E c \in Connections : SelectUrl(c)
  \/ \E c \in Connections : SelectContent(c)
  \/ \E c \in Connections : InsertRow(c)
  \/ \E c \in Connections : Commit(c)
  \/ \E c \in Connections : ReleaseSave(c)

SpecSave == Init /\ [][NextSave]_vars

\* the same calls one after the other on one connection
NextSaveAlone ==
  \/ \E url \in Urls, content \in SaveContents : BeginSave(1, url, content)
  \/ SelectUrl(1)
  \/ SelectContent(1)
  \/ InsertRow(1)
  \/ Commit(1)
  \/ ReleaseSave(1)

SpecSaveAlone == Init /\ [][NextSaveAlone]_vars

-----------------------------------------------------------------------------
(* URLKeywordDetectionSystem: analyze_url and analyze_board                *)

\* board runs: posts of two urls, with a content that holds a keyword, the
\* same content with other white space, a content without a keyword, and a
\* page of which the crawler extracts no content
MaxPosts == 2

BoardTitle == <<"pan", "mae">>

Posts ==
  { [url |-> url, title |-> BoardTitle, content |-> content] :
      url \in Urls, content \in { <<"D", "B">>, <<"D", "B", " ">>, toto, <<>> } }

BoardLists == UNION { [1..n -> Posts] : n \in 1..MaxPosts }

BoardEngines == { Engine(<< <<"personal_db", <<"D", "B">> >> >>, NoDocument, "exact") }

\* any(detected_keywords.values())
AnyDetected(detected_keywords) ==
  \E cat \in DOMAIN detected_keywords : detected_keywords[cat] # <<>>

\* crawl_urls([url]) of the page of a post: success_count is 0 when the
\* crawler extracts no content
CrawlFails(post) == post.content = <<>>

\* the end of analyze_url, from the detected keywords on: the save when any
\* is detected, and the dict returned, with the table the call leaves
UrlResult(detected_keywords, table, post) ==
  IF AnyDetected(detected_keywords)
    THEN LET saved == save_crawl_result(table, post.url, post.content)
         IN  [status |-> "success", result_id |-> saved.result,
              detected_keywords |-> detected_keywords, table |-> saved.table]
    ELSE [status |-> "success", result_id |-> Returns("None", 0),
          detected_keywords |-> detected_keywords, table |-> table]

\* analyze_url(url, print_result=False) on the page of a post and the table
analyze_url(engine, table, post) ==
  IF CrawlFails(post)
    THEN [status |-> "failed", result_id |-> Returns("None", 0),
          detected_keywords |-> EmptyDict, table |-> table]
    ELSE UrlResult(detect_keywords_in_text(engine, post.title \o <<" ">> \o post.content,
                                           TRUE, FALSE),
                   table, post)

\* the branch of analyze_board on what save_crawl_result returned
Branch(run, saved, post) ==
  LET item == [url |-> post.url, title |-> post.title, content |-> post.content]
  IN  [table |-> saved.table,
       board |-> IF saved.result.kind \in {"duplicate_url", "duplicate_content"}
                   THEN [run EXCEPT !.posts = Tail(@), !.skipped = Append(@, item)]
                 ELSE IF saved.result.kind = "id"
                   THEN [run EXCEPT !.posts = Tail(@), !.outputs = Append(@, item)]
                 ELSE [run EXCEPT !.posts = Tail(@)]]

\* the body of the loop of analyze_board from the result of analyze_url on:
\* save_crawl_result once more when keywords were detected
Pass(run, result, post) ==
  IF result.status = "success" /\ AnyDetected(result.detected_keywords)
    THEN Branch(run, save_crawl_result(result.table, post.url, post.content), post)
    ELSE [table |-> result.table, board |-> [run EXCEPT !.posts = Tail(@)]]

\* the entry of analyze_board: post_urls = get_board_post_links(...)
StartBoard(post_urls) ==
  /\ constructed
  /\ board.pc = "idle"
  /\ crawl_results.serial < MaxSerial
  /\ board' = [IdleBoard EXCEPT !.pc = "loop", !.posts = post_urls, !.listed = post_urls,
                                !.before = crawl_results.rows]
  /\ UNCHANGED <<category_patterns, constructed, self, call, crawl_results, save>>

\* one pass of the loop over post_urls: analyze_url, then save_crawl_result
\* and the branch on its result
BoardStep ==
  /\ board.pc = "loop"
  /\ board.posts # <<>>
  /\ \E after \in { Pass(board, analyze_url(self, crawl_results, Head(board.posts)),
                           Head(board.posts)) } :
       /\ crawl_results' = after.table
       /\ board' = after.board
  /\ UNCHANGED <<category_patterns, constructed, self, call, save>>

\* return {'status': 'success', ..., 'count': len(outputs), 'items': outputs}
BoardReturn ==
  /\ board.pc = "loop"
  /\ board.posts = <<>>
  /\ board' = [board EXCEPT !.pc = "done",
                            !.returned = [count |-> Len(board.outputs),
                                          items |-> board.outputs]]
  /\ UNCHANGED <<category_patterns, constructed, self, call, crawl_results, save>>

\* the caller has the dict; the system is free for another run
ReleaseBoard ==
  /\ board.pc = "done"
  /\ board' = IdleBoard
  /\ UNCHANGED <<category_patterns, constructed, self, call, crawl_results, save>>

\* one system, and runs of analyze_board one after the other
NextBoard ==
  \/ \E e \in BoardEngines : Construct(e.rows, e.doc, e.search_mode)
  \/ \E post_urls \in BoardLists : StartBoard(post_urls)
  \/ BoardStep
  \/ BoardReturn
  \/ ReleaseBoard

SpecBoard == Init /\ [][NextBoard]_vars

-----------------------------------------------------------------------------
(* The deduplication on its own, over lists of candidate hits              *)

\* self._remove_duplicates(detected)
RemoveDuplicates(t, detected) ==
  /\ call[t].pc = "idle"
  /\ call' = [call EXCEPT ![t] =
       [IdleCall EXCEPT !.pc = "deduplicated",
                        !.detected = detected,
                        !.result = _remove_duplicates(detected)]]
  /\ UNCHANGED <<category_patterns, constructed, self, crawl_results, save, board>>

NextDedup ==
  \/ /\ call[1].pc = "idle"
     /\ \E detected \in DetectedDicts : RemoveDuplicates(1, detected)
  \/ Release(1)

SpecDedup == Init /\ [][NextDedup]_vars

-----------------------------------------------------------------------------
(* Claims                                                                  *)

\* the finished calls
Done == {t \in Threads : constructed /\ call[t].pc = "done"}

\* the elements of a sequence
Range(q) == {q[n] : n \in 1..Len(q)}

\* the hits that a finished call returned in a category
Returned(t, cat) ==
  IF cat \in DOMAIN call[t].result THEN Range(call[t].result[cat]) ELSE {}

\* the candidate hits of a call in a category: what the scan hands to
\* _remove_duplicates
Candidates(t, cat) ==
  LET c == call[t]
      detected == IF c.text = <<>> THEN EmptyDict
                  ELSE IF c.require_full_combination
                         THEN _detect_with_combination_filter(self, c.text, c.enable_secondary_filter)
                         ELSE DefaultScan(self, c.text, c.enable_secondary_filter)
  IN  IF cat \in DOMAIN detected THEN Range(detected[cat]) ELSE {}

SpansDisjoint(h1, h2) ==
  h1.end_position <= h2.start_position \/ h2.end_position <= h1.start_position

\* C1: overlap law. In every category of a result, two distinct hits have
\* disjoint spans; and of two distinct candidates whose spans overlap exactly
\* one is returned, whose keyword is at least as long as the other's.
C1_OverlapLaw ==
  \A t \in Done : \A cat \in Categories :
    /\ \A i, j \in 1..Len(IF cat \in DOMAIN call[t].result THEN call[t].result[cat] ELSE <<>>) :
         i # j => SpansDisjoint(call[t].result[cat][i], call[t].result[cat][j])
    /\ \A h1, h2 \in Candidates(t, cat) :
         (h1 # h2 /\ ~SpansDisjoint(h1, h2) /\ h1 \in Returned(t, cat))
           => /\ h2 \notin Returned(t, cat)
              /\ Len(h1.keyword) >= Len(h2.keyword)

\* C2: every returned hit has 0 <= start_position < end_position <= len(text).
C2_SpanWithinText ==
  \A t \in Done : \A cat \in Categories : \A h \in Returned(t, cat) :
    /\ 0 <= h.start_position
    /\ h.start_position < h.end_position
    /\ h.end_position <= Len(call[t].text)

\* C3: literal-match soundness. In exact mode, the default scan without the
\* secondary filter reports, for a catalog keyword that occurs literally in
\* the text, a hit whose matched_text normalizes to the normalized keyword.
\* Stated for a keyword that is the only one of its category and has a
\* non-empty normalized form, so that no other keyword's hit can displace it.
C3_LiteralMatchSoundness ==
  \A t \in Done :
    (/\ self.search_mode = "exact"
     /\ ~call[t].enable_secondary_filter
     /\ ~call[t].require_full_combination)
    => \A cat \in DOMAIN self.illegal_keywords :
         LET k == self.illegal_keywords[cat][1]
         IN  (/\ Len(self.illegal_keywords[cat]) = 1
              /\ _normalize(k) # <<>>
              /\ Contains(call[t].text, k))
             => \E h \in Returned(t, cat) : _normalize(h.matched_text) = _normalize(k)

\* the normalized forms of the spellings of a keyword
VariantNorms(k) == {_normalize(v) : v \in Range(_expand_alias_variants(k))}

\* the text holds a proper fragment of keyword k and no full occurrence of k
\* or of one of its alias spellings, inserted separators aside
FragmentOnly(k, text) ==
  /\ \E a \in 0..Len(k), b \in 0..Len(k) :
       /\ a < b
       /\ b - a < Len(k)
       /\ Contains(text, Slice(k, a, b))
  /\ \A v \in VariantNorms(k) : ~Contains(_normalize(text), v)

\* C4: combination precision. With require_full_combination a text that
\* holds only a fragment of a keyword yields no hit for that keyword, in
\* either search mode, and the matched_text of every hit is, once normalized,
\* the whole keyword in one of its spellings.
C4_CombinationPrecision ==
  \A t \in Done :
    call[t].require_full_combination
    => \A cat \in DOMAIN self.illegal_keywords :
         /\ \A k \in Range(self.illegal_keywords[cat]) :
              FragmentOnly(k, call[t].text)
                => ~\E h \in Returned(t, cat) : h.keyword = k
         /\ \A h \in Returned(t, cat) :
              _normalize(h.matched_text) \in VariantNorms(h.keyword)

\* C4 witness: a combination scan, in partial mode, of a text that holds a
\* fragment of a keyword only, and that returned no hit for it.
C4_Witness ==
  \E t \in Done :
    /\ call[t].require_full_combination
    /\ self.search_mode = "partial"
    /\ "personal_db" \in DOMAIN self.illegal_keywords
    /\ totoDB \in Range(self.illegal_keywords["personal_db"])
    /\ FragmentOnly(totoDB, call[t].text)
    /\ Contains(call[t].text, toto)
    /\ Returned(t, "personal_db") = {}

\* the engine with the same catalog, compiled in exact mode
ExactTwin(engine) ==
  [engine EXCEPT !.search_mode = "exact",
                 !.compiled_norms = _compile_norms(engine.illegal_keywords, "exact")]

\* C5: partial superset. What an engine in partial mode returns holds, per
\* category, every hit that the engine in exact mode returns for the same
\* catalog, text and options.
C5_PartialSuperset ==
  \A t \in Done :
    self.search_mode = "partial"
    => LET exact == detect_keywords_in_text(ExactTwin(self), call[t].text,
                                            call[t].enable_secondary_filter,
                                            call[t].require_full_combination)
       IN  \A cat \in DOMAIN exact : Range(exact[cat]) \subseteq Returned(t, cat)

\* the three spellings of the alias symmetry
totoDiBi == <<"to", "to", " ", "di", "bi">>
totoD_B == <<"to", "to", " ", "D", " ", "B">>

\* C6: alias symmetry. The three spellings have one normalized form, and in
\* exact mode the catalog keyword totoDB has a hit on each of them (in every
\* category without the secondary filter, in personal_db with it too).
C6_AliasSymmetry ==
  /\ _normalize(totoDB) = _normalize(totoDiBi)
  /\ _normalize(totoDiBi) = _normalize(totoD_B)
  /\ \A t \in Done :
       (/\ self.search_mode = "exact"
        /\ ~call[t].require_full_combination
        /\ call[t].text \in {totoDB, totoDiBi, totoD_B})
       => \A cat \in DOMAIN self.illegal_keywords :
            (/\ totoDB \in Range(self.illegal_keywords[cat])
             /\ (cat = "personal_db" \/ ~call[t].enable_secondary_filter))
            => \E h \in Returned(t, cat) :
                 /\ h.keyword = totoDB
                 /\ h.start_position = 0
                 /\ h.end_position = Len(call[t].text)

\* C6 witness: the spelling with spaced Latin letters was scanned in exact
\* mode with the default options and the keyword totoDB was reported.
C6_Witness ==
  \E t \in Done :
    /\ self.search_mode = "exact"
    /\ call[t].text = totoD_B
    /\ call[t].enable_secondary_filter
    /\ ~call[t].require_full_combination
    /\ \E h \in Returned(t, "personal_db") : h.keyword = totoDB /\ h.matched_text = totoD_B

\* C7: false-positive suppression. In a category with false-positive phrases
\* no returned hit, of the default scan or of the combination scan, has a
\* context whose normalized form holds the normalized form of a phrase.
C7_FalsePositiveSuppression ==
  \A t \in Done : \A cat \in DOMAIN self.false_positive :
    \A h \in Returned(t, cat) : \A phrase \in Range(self.false_positive[cat]) :
      phrase # <<>> => ~Contains(_normalize(h.context), _normalize(phrase))

\* the wide window of a hit: FilterContextSize characters of the text on
\* each side of its span
WideWindow(text, h) ==
  Slice(text, Max(0, h.start_position - FilterContextSize),
        Min(Len(text), h.end_position + FilterContextSize))

\* C8: with enable_secondary_filter no returned hit, in any category, has a
\* negative indicator in its wide window.
C8_NegativeIndicatorSuppresses ==
  \A t \in Done :
    call[t].enable_secondary_filter
    => \A cat \in Categories : \A h \in Returned(t, cat) :
         ~\E ind \in NEGATIVE_INDICATORS :
            Contains(LowerStr(WideWindow(call[t].text, h)), ind)

C11_NoEmptyCategory ==
  \A t \in Done :
    LET c == call[t]
        detected == IF c.text = <<>> THEN EmptyDict
                    ELSE IF c.require_full_combination
                           THEN _detect_with_combination_filter(self, c.text,
                                                                c.enable_secondary_filter)
                           ELSE DefaultScan(self, c.text, c.enable_secondary_filter)
    IN  /\ \A cat \in DOMAIN c.result : c.result[cat] # <<>>
        /\ \A cat \in DOMAIN detected : detected[cat] # <<>>
        /\ DOMAIN c.result = DOMAIN detected

\* C11 witness: the secondary filter rejected every hit of loan_db, which is
\* absent from the result, while personal_db is in it.
C11_Witness ==
  \E t \in Done :
    /\ call[t].enable_secondary_filter
    /\ ~call[t].require_full_combination
    /\ "loan_db" \in DOMAIN DefaultScan(self, call[t].text, FALSE)
    /\ DOMAIN call[t].result = {"personal_db"}

\* the runs of the deduplication that have returned
Deduplicated == {t \in Threads : call[t].pc = "deduplicated"}

\* the hits handed to the deduplication in a category, and the hits it kept
HitsIn(t, cat) ==
  IF cat \in DOMAIN call[t].detected THEN call[t].detected[cat] ELSE <<>>

HitsOut(t, cat) ==
  IF cat \in DOMAIN call[t].result THEN call[t].result[cat] ELSE <<>>

\* C12: in every category of the output of the deduplication the hits are in
\* the order of increasing start_position, then end_position.
C12_AscendingSpans ==
  \A t \in Deduplicated : \A cat \in Categories :
    \A i, j \in 1..Len(HitsOut(t, cat)) :
      i < j => LET a == HitsOut(t, cat)[i]
                   b == HitsOut(t, cat)[j]
               IN  \/ a.start_position < b.start_position
                   \/ /\ a.start_position = b.start_position
                      /\ a.end_position <= b.end_position

\* C12 witness: a hit was removed in favour of a later hit with a longer
\* keyword, and the output holds that hit and one more.
C12_Witness ==
  \E t \in Deduplicated :
    /\ Len(HitsOut(t, "loan_db")) >= 2
    /\ \E a \in Range(HitsIn(t, "loan_db")), b \in Range(HitsOut(t, "loan_db")) :
         /\ a \notin Range(HitsOut(t, "loan_db"))
         /\ a.start_position < b.start_position
         /\ ~SpansDisjoint(a, b)
         /\ Len(b.keyword) > Len(a.keyword)
         /\ \A c \in Range(HitsIn(t, "loan_db")) \ {a, b} : SpansDisjoint(a, c)

C14_MalformedDocumentDegrades == self.error = "none"

\* C15: no detection call ends in a fault: a candidate whose translated
\* offsets lie outside the text is dropped, so that every returned hit lies
\* within the text, and the hits of the other candidates are returned.
C15_OutOfBoundsCandidateDropped ==
  \A t \in Done :
    /\ call[t].raised = "none"
    /\ \A cat \in Categories : \A h \in Returned(t, cat) :
         h.end_position <= Len(call[t].text)
    /\ (~call[t].require_full_combination /\ ~call[t].enable_secondary_filter)
       => \A cat \in DOMAIN self.compiled_norms :
            \A n \in 1..Len(self.compiled_norms[cat]) :
              LET nm == _build_norm_map(call[t].text)
                  needle == self.compiled_norms[cat][n].norm
                  pos == Find(nm.norm_text, needle, 0)
              IN  (pos # -1 /\ pos + Len(needle) <= Len(nm.idx_map))
                  => Returned(t, cat) # {}

\* C16: an invalid category pattern in the configuration of the secondary
\* filter makes the construction of the engine fail, and no detection call is
\* the first to raise the error of the pattern.
C16_InvalidPatternFailsConstruction ==
  /\ (\E cat \in Categories : \E n \in 1..Len(category_patterns[cat]) :
        ReError(category_patterns[cat][n]))
     => ~constructed
  /\ \A t \in Done : call[t].raised # "re.error"

RECURSIVE Reach(_, _)
\* the hits of S that a chain of intersecting spans joins to a hit of R
Reach(S, R) ==
  LET more == R \cup {h \in S : \E r \in R : ~SpansDisjoint(h, r)}
  IN  IF more = R THEN R ELSE Reach(S, more)

\* the overlap cluster of h among the candidates S
Cluster(S, h) == Reach(S, {h})

\* h comes before g in the order of the sort, or is g
Earlier(h, g) ==
  \/ h.start_position < g.start_position
  \/ h.start_position = g.start_position /\ h.end_position <= g.end_position

\* the hits of K with the longest keyword that no other such hit precedes
Longest(K) ==
  LET long == {h \in K : \A g \in K : Len(g.keyword) <= Len(h.keyword)}
  IN  {h \in long : \A g \in long : Earlier(h, g)}

\* C17: the deduplication keeps exactly one hit of every overlap cluster (the
\* transitive closure of span intersection within a category): the hit with
\* the longest keyword, the earliest in (start, end) order among equals.
C17_OnePerCluster ==
  \A t \in Deduplicated : \A cat \in Categories :
    \A h \in Range(HitsIn(t, cat)) :
      LET K == Cluster(Range(HitsIn(t, cat)), h)
          out == HitsOut(t, cat)
      IN  /\ Cardinality({n \in 1..Len(out) : out[n] \in K}) = 1
          /\ \A n \in 1..Len(out) : out[n] \in K => out[n] \in Longest(K)

\* the candidates of a category whose span meets the span of no other
\* candidate of the category
Singletons(t, cat) ==
  {h \in Range(HitsIn(t, cat)) :
     \A g \in Range(HitsIn(t, cat)) \ {h} : SpansDisjoint(h, g)}

\* C18: a candidate whose span overlaps no other candidate of its category
\* is in the output of the deduplication.
C18_SingletonKept ==
  \A t \in Deduplicated : \A cat \in Categories :
    Singletons(t, cat) \subseteq Range(HitsOut(t, cat))

\* C18 witness: a candidate with no overlap stands next to a candidate with a
\* longer keyword whose span begins where its span ends, and another
\* candidate was removed.
C18_Witness ==
  \E t \in Deduplicated :
    \E h \in Singletons(t, "loan_db") \cap Range(HitsOut(t, "loan_db")) :
      /\ \E g \in Range(HitsIn(t, "loan_db")) :
           /\ g.start_position = h.end_position
           /\ Len(g.keyword) > Len(h.keyword)
      /\ Range(HitsIn(t, "loan_db")) \ Range(HitsOut(t, "loan_db")) # {}

\* the hits of the output of a category with a keyword at least as long as
\* the keyword of h
AsLong(t, cat, h) ==
  {s \in Range(HitsOut(t, cat)) : Len(s.keyword) >= Len(h.keyword)}

\* C19 as stated: for every candidate that is absent from the output of the
\* deduplication, the output holds a hit of the same category whose span
\* overlaps its span (or is its span) and whose keyword is at least as long.
C19_RemovedForOverlappingSurvivor ==
  \A t \in Deduplicated : \A cat \in Categories :
    \A h \in Range(HitsIn(t, cat)) \ Range(HitsOut(t, cat)) :
      \E s \in AsLong(t, cat, h) :
        \/ s.start_position = h.start_position /\ s.end_position = h.end_position
        \/ ~SpansDisjoint(s, h)

\* C19, amended: for every candidate that is absent from the output of the
\* deduplication, the output holds a hit of the same category whose keyword
\* is at least as long and that a chain of candidates with intersecting
\* spans joins to it; the survivor need not meet the removed hit itself.
C19_RemovedForClusterSurvivor ==
  \A t \in Deduplicated : \A cat \in Categories :
    \A h \in Range(HitsIn(t, cat)) \ Range(HitsOut(t, cat)) :
      AsLong(t, cat, h) \cap Cluster(Range(HitsIn(t, cat)), h) # {}

\* C19 witness: a hit displaced an earlier one and was displaced later by a
\* hit that does not meet the first.
C19_Witness ==
  \E t \in Deduplicated :
    \E a, b \in Range(HitsIn(t, "loan_db")) \ Range(HitsOut(t, "loan_db")) :
      \E c \in Range(HitsOut(t, "loan_db")) :
        /\ ~SpansDisjoint(a, b) /\ ~SpansDisjoint(b, c) /\ SpansDisjoint(a, c)
        /\ Len(a.keyword) < Len(b.keyword) /\ Len(b.keyword) < Len(c.keyword)
        /\ HitsOut(t, "loan_db") = <<c>>

\* the keyword is one of the special case of the context check: a keyword of
\* personal_db that holds a DB marker
SpecialCase(keyword, category) ==
  category = "personal_db" /\ \E db \in db_keywords : Contains(LowerStr(keyword), db)

\* a word of the set words occurs in the string, in lower case
Holds(string, words) == \E w \in words : Contains(LowerStr(string), w)

\* the rule of the context check outside the special case
ContextRule(keyword, context, category) ==
  /\ \/ Holds(keyword, TRADE_INDICATORS)
     \/ Holds(context, TRADE_INDICATORS)
     \/ Holds(context, REQUIRED_INDICATORS[category])
  /\ ~Holds(context, NEGATIVE_INDICATORS)

\* the context that _passes_secondary_filter hands to the context check for
\* the span [start, end) of the text
FilterContext(text, start, end) == _get_context(text, start, end, FilterContextSize)

\* C20: outside the special case of a personal_db keyword with a DB marker,
\* the context check accepts a candidate iff a trade-intent word occurs in
\* the keyword or in the context, or a required indicator of the category
\* occurs in the context, and no negative indicator occurs in the context;
\* and a call with enable_secondary_filter returns only hits that the rule
\* accepts.
C20_ContextRule ==
  \A t \in Done :
    call[t].enable_secondary_filter =>
      \A cat \in DOMAIN self.illegal_keywords :
        \A n \in 1..Len(self.illegal_keywords[cat]) :
          LET keyword == self.illegal_keywords[cat][n]
              text == call[t].text
          IN  ~SpecialCase(keyword, cat) =>
                /\ \A start \in 0..Len(text) : \A end \in start..Len(text) :
                     LET context == FilterContext(text, start, end)
                     IN  _is_valid_illegal_context(keyword, context, cat)
                           <=> ContextRule(keyword, context, cat)
                /\ \A h \in Returned(t, cat) :
                     h.keyword = keyword =>
                       ContextRule(keyword,
                                   FilterContext(text, h.start_position, h.end_position), cat)

\* C20 witness: a call with enable_secondary_filter returns a loan_db hit
\* whose context holds a trade-intent word and no required indicator, and
\* the text holds one more occurrence of the keyword.
C20_Witness ==
  \E t \in Done :
    /\ call[t].enable_secondary_filter
    /\ \E h \in Returned(t, "loan_db") :
         LET ctx == FilterContext(call[t].text, h.start_position, h.end_position)
         IN  /\ h.keyword = totoDB
             /\ Holds(ctx, TRADE_INDICATORS)
             /\ ~Holds(ctx, REQUIRED_INDICATORS["loan_db"])
             /\ ~Holds(h.keyword, TRADE_INDICATORS)
             /\ h.start_position > 0

\* C21: for a personal_db keyword that holds a DB marker the context check
\* accepts a candidate iff no negative indicator occurs in the context,
\* whether or not a trade-intent word or a required indicator is there; and
\* a call with enable_secondary_filter returns no such hit with a negative
\* indicator in its context.
C21_SpecialCaseNegativeOnly ==
  \A t \in Done :
    call[t].enable_secondary_filter =>
      \A cat \in DOMAIN self.illegal_keywords :
        \A n \in 1..Len(self.illegal_keywords[cat]) :
          LET keyword == self.illegal_keywords[cat][n]
              text == call[t].text
          IN  SpecialCase(keyword, cat) =>
                /\ \A start \in 0..Len(text) : \A end \in start..Len(text) :
                     LET context == FilterContext(text, start, end)
                     IN  _is_valid_illegal_context(keyword, context, cat)
                           <=> ~Holds(context, NEGATIVE_INDICATORS)
                /\ \A h \in Returned(t, cat) :
                     h.keyword = keyword =>
                       ~Holds(FilterContext(text, h.start_position, h.end_position),
                              NEGATIVE_INDICATORS)

\* C21 witness: a call with enable_secondary_filter returns a personal_db hit
\* of the keyword DB whose context holds no trade-intent word and no
\* required indicator of any category.
C21_Witness ==
  \E t \in Done :
    /\ call[t].enable_secondary_filter
    /\ \E h \in Returned(t, "personal_db") :
         LET ctx == FilterContext(call[t].text, h.start_position, h.end_position)
         IN  /\ h.keyword = <<"D", "B">>
             /\ ~Holds(ctx, TRADE_INDICATORS)
             /\ \A cat \in Categories : ~Holds(ctx, REQUIRED_INDICATORS[cat])

\* the narrow window of the pattern check around the span [start, end)
NarrowWindow(text, start, end) ==
  Slice(text, Max(0, start - PatternMargin), Min(Len(text), end + PatternMargin))

\* C22: for a category with configured patterns, whenever the keyword,
\* stripped of separators and case-folded, is contained in the narrow window
\* of a span, stripped and folded likewise, the pattern check of that span
\* passes, whatever the configured patterns matched.
C22_PatternFallback ==
  \A t \in Done :
    call[t].enable_secondary_filter =>
      \A cat \in DOMAIN self.illegal_keywords :
        \A n \in 1..Len(self.illegal_keywords[cat]) :
          LET keyword == self.illegal_keywords[cat][n]
              text == call[t].text
          IN  CATEGORY_PATTERNS[cat] # <<>> =>
                \A start \in 0..Len(text) : \A end \in start..Len(text) :
                  Contains(simple_normalize(NarrowWindow(text, start, end)),
                           simple_normalize(keyword))
                  => _is_exact_keyword_pattern(keyword, text, start, end, cat)

\* the keywords of the catalog of a category whose forms, in the mode of
\* the engine, include norm: their positions in the catalog
Producers(cat, norm) ==
  {m \in 1..Len(self.illegal_keywords[cat]) :
     \E n \in 1..Len(CandidateNorms(self.illegal_keywords[cat][m], self.search_mode)) :
       CandidateNorms(self.illegal_keywords[cat][m], self.search_mode)[n] = norm}

\* C23: after construction, in every category the compiled normalized forms
\* are non-empty and pairwise distinct, and each form carries the first
\* keyword of the catalog, in catalog order, that produces it.
C23_CompiledForms ==
  constructed =>
    /\ DOMAIN self.compiled_norms = DOMAIN self.illegal_keywords
    /\ \A cat \in DOMAIN self.compiled_norms :
         LET bucket == self.compiled_norms[cat]
         IN  \A i \in 1..Len(bucket) :
               /\ bucket[i].norm # <<>>
               /\ \A j \in 1..Len(bucket) : i # j => bucket[i].norm # bucket[j].norm
               /\ \E m \in Producers(cat, bucket[i].norm) :
                    /\ bucket[i].raw = self.illegal_keywords[cat][m]
                    /\ \A k \in Producers(cat, bucket[i].norm) : m <= k

\* C23 witness: two keywords of one category produce the same form, and the
\* engine is in partial mode.
C23_Witness ==
  /\ constructed
  /\ self.search_mode = "partial"
  /\ \E cat \in DOMAIN self.compiled_norms :
       \E i \in 1..Len(self.compiled_norms[cat]) :
         Cardinality(Producers(cat, self.compiled_norms[cat][i].norm)) >= 2

\* the keywords of a category in the rows of the provider, in row order
ProviderList(rows, cat) ==
  LET mine == SelectSeq(rows, LAMBDA row : row[1] = cat)
  IN  [n \in 1..Len(mine) |-> mine[n][2]]

\* the keywords of a category in a dict of lists, none when it has no such key
ListOf(d, cat) == IF cat \in DOMAIN d THEN d[cat] ELSE <<>>

\* how many times x is in the list
Count(list, x) == Cardinality({n \in 1..Len(list) : list[n] = x})

\* C24: after construction every keyword of the document's keyword section
\* is in the catalog of its category; a keyword of the document that the
\* provider has for that category is not appended, and none is appended
\* twice; the keywords of the provider come first, in their order; with no
\* document the catalog is the provider's and the false-positive set is empty.
C24_CatalogMerge ==
  \A e \in CatalogEngines :
    (constructed /\ self = KeywordMatcher(e.rows, e.doc, e.search_mode)) =>
      /\ \A cat \in Categories :
           LET prov == ProviderList(e.rows, cat)
               docl == IF e.doc.exists THEN ListOf(e.doc.illegal_keywords, cat) ELSE <<>>
               klist == ListOf(self.illegal_keywords, cat)
           IN  /\ \A n \in 1..Len(docl) :
                    Count(klist, docl[n]) = IF Count(prov, docl[n]) > 0
                                              THEN Count(prov, docl[n]) ELSE 1
               /\ Len(klist) >= Len(prov)
               /\ SubSeq(klist, 1, Len(prov)) = prov
               /\ \A n \in (Len(prov) + 1)..Len(klist) : Count(docl, klist[n]) > 0
               /\ cat \in DOMAIN self.illegal_keywords <=> (prov # <<>> \/ docl # <<>>)
      /\ ~e.doc.exists => self.false_positive = EmptyDict

\* C24 witness: the document repeats a keyword of the provider, lists a new
\* keyword twice and brings a category that the provider does not have.
C24_Witness ==
  \E e \in CatalogEngines :
    /\ constructed /\ self = KeywordMatcher(e.rows, e.doc, e.search_mode)
    /\ e.doc = RepeatDocument
    /\ ProviderList(e.rows, "personal_db") = <<>>
    /\ ProviderList(e.rows, "loan_db") # <<>>
    /\ self.illegal_keywords["personal_db"] = << totoDB, <<"D", "B">> >>

\* the offset in the normalized text that the index map sends to the
\* offset orig of the text
NormPos(nm, orig) == (CHOOSE n \in 1..Len(nm.idx_map) : nm.idx_map[n] = orig) - 1

\* the offsets of the normalized text at which the needle occurs
Occurrences(nm, needle) ==
  {p \in 0..(Len(nm.norm_text) - Len(needle)) : StartsAt(nm.norm_text, needle, p)}

\* the occurrences of the compiled form that the default scan examines: the
\* candidates of a scan without the secondary filter
Examined(text, nm, item, cat) == ScanNeedle(text, nm, item, cat, FALSE, 0)

OverlapSkipped ==
  \E t \in Done :
    /\ ~call[t].require_full_combination
    /\ \E start \in 0..Len(call[t].text) :
         /\ Slice(call[t].text, start, Min(Len(call[t].text), start + 5))
              = <<"pan", "mae", "pan", "mae", "pan">>
         /\ \E h \in Returned(t, "loan_db") : h.start_position = start
         /\ ~\E h \in Returned(t, "loan_db") : h.start_position = start + 2

\* C26: _build_norm_map returns the normalized string that _normalize
\* returns and an index map with one entry per normalized character, strictly
\* increasing, each entry the offset in the alias-substituted string t of a
\* character that is no separator and whose lower case is that normalized
\* character.
C26_NormMapRefinesNormalize ==
  \A t \in Done :
    LET text == call[t].text
        tt == ApplyAliases(text, 1)
        nm == _build_norm_map(text)
    IN  /\ nm.norm_text = _normalize(text)
        /\ Len(nm.idx_map) = Len(nm.norm_text)
        /\ \A n \in 1..(Len(nm.idx_map) - 1) : nm.idx_map[n] < nm.idx_map[n + 1]
        /\ \A n \in 1..Len(nm.idx_map) :
             /\ nm.idx_map[n] \in 0..(Len(tt) - 1)
             /\ ~IsSep(tt[nm.idx_map[n] + 1])
             /\ LowerChars(tt[nm.idx_map[n] + 1]) = <<nm.norm_text[n]>>

\* the window of a hit with the markers around the matched span alone
MarkedSpan(text, start, end) ==
  Slice(text, Max(0, start - DisplayContextSize), start)
    \o <<"*", "*">> \o Slice(text, start, end) \o <<"*", "*">>
    \o Slice(text, end, Min(Len(text), end + DisplayContextSize))

\* C27: the context of a returned hit is the window of at most 50 characters
\* on each side of the match with the markers around the matched span and
\* nowhere else, so that it is at most len(match) + 100 + 4 characters long.
C27_ContextMarksMatchedSpan ==
  \A t \in Done : \A cat \in Categories : \A h \in Returned(t, cat) :
    /\ h.context = MarkedSpan(call[t].text, h.start_position, h.end_position)
    /\ Len(h.context) <= Len(h.matched_text) + 2 * DisplayContextSize + 4

\* the search loop of thread t goes from one iteration to the next for the
\* same compiled form
NextIteration(t) ==
  /\ call[t].pc = "needle" /\ call'[t].pc = "needle"
  /\ call[t].items # <<>> /\ call'[t].items = call[t].items
  /\ call'[t].cats = call[t].cats

\* C28: detect_keywords_in_text terminates for every text and every catalog,
\* those with empty keywords and keywords of separators included: no
\* compiled form is empty, every iteration of the search loop that is
\* followed by another one for the same form has moved the start forward,
\* and every call that has begun comes to its end.
C28_ScanTerminates ==
  /\ [](\A cat \in DOMAIN self.compiled_norms :
          \A n \in 1..Len(self.compiled_norms[cat]) : self.compiled_norms[cat][n].norm # <<>>)
  /\ [][\A t \in Threads : NextIteration(t) => call'[t].start > call[t].start]_vars
  /\ \A t \in Threads : (call[t].pc \in {"scan", "needle"}) ~> (call[t].pc = "done")

\* C28 witness: the catalog holds an empty keyword and a keyword of
\* separators, and the search loop is in an iteration after the first one
\* for a compiled form.
C28_Witness ==
  /\ constructed
  /\ \E cat \in DOMAIN self.illegal_keywords :
       /\ \E n \in 1..Len(self.illegal_keywords[cat]) : self.illegal_keywords[cat][n] = <<>>
       /\ \E n \in 1..Len(self.illegal_keywords[cat]) :
            /\ self.illegal_keywords[cat][n] # <<>>
            /\ _normalize(self.illegal_keywords[cat][n]) = <<>>
  /\ \E t \in Threads :
       /\ call[t].pc = "needle"
       /\ call[t].items # <<>>
       /\ call[t].start > 0
       /\ Find(call[t].nm.norm_text, Head(call[t].items).norm, call[t].start) # -1

\* a statement of a running call leaves a state other than the one it began
\* in: the search loop changes its start, its compiled form or its position
IterationMoves ==
  \A t \in Threads :
    (call[t].pc = "needle" /\ call[t].items # <<>>)
      => Iteration(category_patterns, call[t]) # call[t]

\* the hits that the iterations of the search loop have gathered for a
\* category are those of the scan of the category
LoopAgreesWithScan ==
  \A t \in Threads :
    (call[t].pc = "done" /\ call[t].raised = "none" /\ call[t].text # <<>>)
      => call[t].result = detect_keywords_in_text(self, call[t].text,
                                                  call[t].enable_secondary_filter, FALSE)

\* C29: crawl_results never holds two rows with one url nor two rows with
\* one content hash, whatever calls of save_crawl_result have run and however
\* the calls of two connections interleave; a call whose url was stored when
\* it began returns "duplicate_url", one whose content hash was stored
\* returns "duplicate_content", and neither inserts a row.
C29_NoDuplicateRows ==
  /\ \A i, j \in 1..Len(crawl_results.rows) :
       i # j => /\ crawl_results.rows[i].url # crawl_results.rows[j].url
                /\ crawl_results.rows[i].content_hash # crawl_results.rows[j].content_hash
  /\ \A c \in Connections :
       save[c].pc = "done" =>
         /\ UrlStored(save[c].before, save[c].url)
              => save[c].result.kind = "duplicate_url"
         /\ (~UrlStored(save[c].before, save[c].url)
              /\ HashStored(save[c].before, save[c].content_hash))
              => save[c].result.kind = "duplicate_content"
         /\ save[c].result.kind \in {"duplicate_url", "duplicate_content"}
              => ~\E n \in 1..Len(crawl_results.rows) : crawl_results.rows[n].id = save[c].id

\* the post was stored before the run of analyze_board: a row had its url or
\* the hash of its content
StoredBefore(post) ==
  \/ UrlStored(board.before, post.url)
  \/ HashStored(board.before, _get_content_hash(post.content))

\* the posts of the board in which keywords are detected
Flagged ==
  { n \in 1..Len(board.listed) :
      /\ ~CrawlFails(board.listed[n])
      /\ AnyDetected(detect_keywords_in_text(self,
            board.listed[n].title \o <<" ">> \o board.listed[n].content, TRUE, FALSE)) }

\* C30: analyze_board returns among its items, and counts, every post in
\* which keywords were detected and whose url and content were not stored
\* before the call, and it reports as duplicates only posts that were stored
\* before the call.
C30_BoardReportsNewPosts ==
  board.pc = "done" =>
    /\ \A n \in Flagged :
         ~StoredBefore(board.listed[n])
           => \E k \in 1..Len(board.returned.items) :
                board.returned.items[k].url = board.listed[n].url
    /\ board.returned.count = Len(board.returned.items)
    /\ \A k \in 1..Len(board.skipped) : StoredBefore(board.skipped[k])

====
